---- MODULE Spec2Model ----
(***************************************************************************)
(* Verification model of the stdio bridge of mcp-server-godot:             *)
(*   - the frame codec (protocol.ts, mcp_protocol.gd),                     *)
(*   - the controller-side correlation client (bridge-client.ts),          *)
(*   - the target-side delivery pump and command dispatcher.               *)
(* Text is modelled as sequences of one-character strings, so that the     *)
(* prefix token, the suffix token and the base64 alphabet are the real     *)
(* ones.                                                                   *)
(***************************************************************************)
EXTENDS Integers, Sequences, FiniteSets, TLC

VARIABLES
  \* --- codec workbench (pure functions applied to drawn inputs)
  cPieces,      \* the drawn input: a sequence of pieces (text, message, span)
  cSplit,       \* the drawn split position (0: the input is fed in one call)
  cStream,      \* the input as text, built by encoding the pieces
  cPhase,       \* "drawn" | "built"
  cDone,        \* the calls made so far: "decode", "whole", "first", "second"
  cDecoded,     \* result of decodeMessage on a one-frame stream
  cWhole,       \* result of extractMessages on the whole stream
  cFirst,       \* result of extractMessages on stream[0..k)
  cSecond,      \* result of extractMessages on (cFirst.remaining ++ stream[k..))
  cTarget,      \* result of MCPProtocol.decode on a one-piece stream
  cEncoded      \* result of MCPProtocol.encode on the drawn message

VARIABLES
  \* --- correlation client (bridge-client.ts), one BridgeClient object
  isConnected,      \* _isConnected
  capabilities,     \* _capabilities, as the handshake response gave them
  version,          \* _version
  buffer,           \* text received and not yet consumed
  pendingRequests,  \* keys of the pendingRequests map (call numbers; id = its decimal text)
  timers,           \* per call: "none" | "armed" | "cleared" | "fired"
  calls,            \* per call: command, caller, outcome of its promise, value, handshake result
  nextCall,         \* number of the next sendRequest call (ids are fresh)
  stdinWritten,     \* what was written to the input stream of the target
  eventsSeen,       \* messages handed to the "event" observer
  textSeen,         \* texts handed to the "stdout" observer
  disconnects,      \* number of "disconnected" notifications observed
  listening,        \* the observers are still attached (FALSE after destroy)
  procState,        \* "running" | "exited": the target process
  procEvents,       \* process events already handled: subset of {"exit", "error"}
  answerable,       \* calls whose request reached the target while it ran
  chunksLeft,       \* output chunks the target may still deliver
  cutsLeft,         \* chunks the pipe may still cut in two
  wireRest,         \* the rest of a chunk that was cut, still to arrive
  lastHandled       \* the messages the last step handled (empty unless it was a data step)

clvars == <<isConnected, capabilities, version, buffer, pendingRequests, timers, calls, nextCall,
            stdinWritten, eventsSeen, textSeen, disconnects, listening, procState, procEvents,
            answerable, chunksLeft, cutsLeft, wireRest, lastHandled>>

VARIABLES
  \* --- delivery pump of the target (mcp_bridge_autoload.gd)
  launch,           \* how the host was started: [debug build, --mcp-bridge given]
  appended,         \* the messages the reader has appended to the queue so far
  activate,         \* _should_activate(): a debug build started with --mcp-bridge
  hostScene,        \* the current scene of the host: "none" | "Main"
  running,          \* _running
  message_queue,    \* _message_queue
  queue_mutex,      \* _queue_mutex: "none" (not created) | "free" | "reader" | "main"
  stdinPipe,        \* lines written to the input stream and not read yet
  stdoutLines,      \* lines printed to the output stream
  readerPc,         \* _stdin_thread: "off" | "check" | "read" | "lock" | "append" | "unlock" | "done"
  readerMsg,        \* the message the reader is about to queue
  mainPc,           \* main thread: "boot" | "idle" | "duplicate" | "clear" | "unlock" | "each" | "join" | "gone"
  drained,          \* messages: the copy of the queue _process iterates over
  awaiting,         \* the handlers suspended until the frame has been drawn
  returnedToNobody, \* what handlers returned after their caller had gone on
  dispatched,       \* the messages given to _process_message so far
  written           \* number of lines the controller has written

pvars == <<launch, appended, activate, hostScene, running, message_queue, queue_mutex, stdinPipe, stdoutLines,
           readerPc, readerMsg, mainPc, drained, awaiting, returnedToNobody, dispatched,
           written>>

VARIABLES
  \* --- dispatcher workbench: requests given to MCPCommands.execute on a host
  dHost,            \* the host application: scene, nodes, input map, what was done to it
  dMsg,             \* the last request dispatched (JNull before the first)
  dResult,          \* what execute returned for it: [kind, v]
  dCalls            \* number of requests dispatched

dvars == <<dHost, dMsg, dResult, dCalls>>

VARIABLES
  \* --- tool handlers of the controller (handlers/tools/*.ts)
  tProject,         \* runningProjects.get(runId): NoProject, or the run with its bridge
  tPc,              \* "idle" | "awaiting": a handler is suspended in its await of sendRequest
  tCall,            \* the tool call in progress or last made: [tool, args] (NoCall before the first)
  tReturn,          \* what the last handler gave its caller: [kind, text]
  tSent,            \* the requests the handlers passed to sendRequest that were written: <<command, payload>>
  tCalls            \* number of tool calls made

tvars == <<tProject, tPc, tCall, tReturn, tSent, tCalls>>

cvars == <<cPieces, cSplit, cStream, cPhase, cDone, cDecoded, cWhole, cFirst, cSecond, cTarget,
          cEncoded>>

vars == <<cvars, clvars, pvars, dvars, tvars>>

-----------------------------------------------------------------------------
(* Characters and bytes                                                     *)

Ascii ==
  <<" ", "!", "\"", "#", "$", "%", "&", "'", "(", ")", "*", "+", ",", "-", ".", "/", "0", "1",
     "2", "3", "4", "5", "6", "7", "8", "9", ":", ";", "<", "=", ">", "?", "@", "A", "B", "C",
     "D", "E", "F", "G", "H", "I", "J", "K", "L", "M", "N", "O", "P", "Q", "R", "S", "T", "U",
     "V", "W", "X", "Y", "Z", "[", "\\", "]", "^", "_", "BACKTICK", "a", "b", "c", "d", "e", "f", "g",
     "h", "i", "j", "k", "l", "m", "n", "o", "p", "q", "r", "s", "t", "u", "v", "w", "x", "y",
     "z", "{", "|", "}", "~">>

B64 ==
  <<"A", "B", "C", "D", "E", "F", "G", "H", "I", "J", "K", "L", "M", "N", "O", "P", "Q", "R",
     "S", "T", "U", "V", "W", "X", "Y", "Z", "a", "b", "c", "d", "e", "f", "g", "h", "i", "j",
     "k", "l", "m", "n", "o", "p", "q", "r", "s", "t", "u", "v", "w", "x", "y", "z", "0", "1",
     "2", "3", "4", "5", "6", "7", "8", "9", "+", "/">>

B64Set == {B64[i] : i \in 1..64}

\* The character a byte outside printable ASCII turns into (U+FFFD or a
\* control character): never part of a frame this model encodes.
OtherChar == "U+FFFD"

\* UTF-8 of the characters the model uses: one byte each.
Utf8Table ==
  [c \in {Ascii[i] : i \in 1..95} \cup {"\n"} |->
     IF c = "\n" THEN 10 ELSE 31 + (CHOOSE i \in 1..95 : Ascii[i] = c)]

Utf8Byte(c) == Utf8Table[c]

Utf8Char(b) == IF b = 10 THEN "\n" ELSE IF b >= 32 /\ b <= 126 THEN Ascii[b - 31] ELSE OtherChar

Utf8Encode(s) == [i \in 1..Len(s) |-> Utf8Byte(s[i])]

Utf8Decode(bs) == [i \in 1..Len(bs) |-> Utf8Char(bs[i])]

\* Buffer.toString("base64"): three bytes to four characters, "=" padding.
Base64Encode(bs) ==
  LET n == Len(bs)
      at(k) == IF k <= n THEN bs[k] ELSE 0
      ch(i) ==
        LET q == (i - 1) \div 4
            r == (i - 1) % 4
            b0 == at(3 * q + 1)
            b1 == at(3 * q + 2)
            b2 == at(3 * q + 3)
        IN  CASE r = 0 -> B64[(b0 \div 4) + 1]
              [] r = 1 -> B64[((b0 % 4) * 16 + (b1 \div 16)) + 1]
              [] r = 2 -> IF 3 * q + 2 > n THEN "=" ELSE B64[((b1 % 16) * 4 + (b2 \div 64)) + 1]
              [] OTHER -> IF 3 * q + 3 > n THEN "=" ELSE B64[(b2 % 64) + 1]
  IN  [i \in 1..(4 * ((n + 2) \div 3)) |-> ch(i)]

Unbase64Table ==
  [c \in B64Set \cup {"-", "_"} |->
     IF c = "-" THEN 62 ELSE IF c = "_" THEN 63 ELSE (CHOOSE i \in 1..64 : B64[i] = c) - 1]

\* The decoder of Node also reads the URL-safe alphabet.
Base64Legal(c) == c \in DOMAIN Unbase64Table

Unbase64(c) == Unbase64Table[c]

\* The six-bit groups to bytes; a trailing group of 2 gives 1 byte, of 3 gives 2.
Base64Bytes(vs) ==
  LET n == Len(vs)
      m == (n \div 4) * 3 + (IF n % 4 = 2 THEN 1 ELSE IF n % 4 = 3 THEN 2 ELSE 0)
      by(j) ==
        LET g == (j - 1) \div 3
            r == (j - 1) % 3
            v0 == vs[4 * g + 1]
            v1 == vs[4 * g + 2]
        IN  CASE r = 0 -> v0 * 4 + (v1 \div 16)
              [] r = 1 -> (v1 % 16) * 16 + (vs[4 * g + 3] \div 4)
              [] OTHER -> (vs[4 * g + 3] % 4) * 64 + vs[4 * g + 4]
  IN  [j \in 1..m |-> by(j)]

\* Buffer.from(text, "base64"): lenient; characters outside the alphabet are
\* skipped and the first "=" ends the input.
Base64DecodeLenient(s) ==
  LET eqs == {i \in 1..Len(s) : s[i] = "="}
      stop == IF eqs = {} THEN Len(s) + 1 ELSE CHOOSE i \in eqs : \A j \in eqs : i <= j
      legal == SelectSeq(SubSeq(s, 1, stop - 1), Base64Legal)
  IN  Base64Bytes([i \in 1..Len(legal) |-> Unbase64(legal[i])])

-----------------------------------------------------------------------------
(* JSON values: [t, v] with t the shape.  "undef" and "nan" are values of   *)
(* the host language that JSON text cannot carry.                           *)

JNull == [t |-> "null", v |-> 0]
JUndef == [t |-> "undef", v |-> 0]
JNaN == [t |-> "nan", v |-> 0]
JTrue == [t |-> "bool", v |-> 1]
JFalse == [t |-> "bool", v |-> 0]
JNum(n) == [t |-> "num", v |-> n]
JStr(s) == [t |-> "str", v |-> s]
JArr(a) == [t |-> "arr", v |-> a]
\* An object is the sequence of its <<key, value>> members, in insertion order.
JObj(ms) == [t |-> "obj", v |-> ms]

HasKey(o, k) == o.t = "obj" /\ \E i \in 1..Len(o.v) : o.v[i][1] = k

\* Property read: undefined when the key is absent or o is no object.
Get(o, k) ==
  IF HasKey(o, k) THEN o.v[CHOOSE i \in 1..Len(o.v) : o.v[i][1] = k][2] ELSE JUndef

\* Property write as JSON.parse does it: a repeated key keeps its place.
SetKey(ms, k, x) ==
  IF \E i \in 1..Len(ms) : ms[i][1] = k
  THEN [i \in 1..Len(ms) |-> IF ms[i][1] = k THEN <<k, x>> ELSE ms[i]]
  ELSE Append(ms, <<k, x>>)

Digit == <<"0", "1", "2", "3", "4", "5", "6", "7", "8", "9">>
DigitSet == {Digit[i] : i \in 1..10}
DigitVal(c) == (CHOOSE i \in 1..10 : Digit[i] = c) - 1

RECURSIVE NatText(_)
NatText(n) == IF n < 10 THEN <<Digit[n + 1]>> ELSE NatText(n \div 10) \o <<Digit[(n % 10) + 1]>>

NumText(n) == IF n < 0 THEN <<"-">> \o NatText(-n) ELSE NatText(n)

RECURSIVE QuoteBody(_)
QuoteBody(s) ==
  IF s = <<>> THEN <<>>
  ELSE LET c == Head(s)
           e == CASE c = "\"" -> <<"\\", "\"">>
                  [] c = "\\" -> <<"\\", "\\">>
                  [] c = "\n" -> <<"\\", "n">>
                  [] OTHER -> <<c>>
       IN  e \o QuoteBody(Tail(s))

\* Mutant of Quote: string text written without escaping.
QuoteRaw(s) == <<"\"">> \o s \o <<"\"">>

Quote(s) == <<"\"">> \o QuoteBody(s) \o <<"\"">>

NullText == <<"n", "u", "l", "l">>
TrueText == <<"t", "r", "u", "e">>
FalseText == <<"f", "a", "l", "s", "e">>

\* JSON.stringify: an undefined member is left out of an object, an undefined
\* element of an array and a non-finite number are written as null.
RECURSIVE JSONstringify(_)
RECURSIVE StringifyMembers(_, _)
RECURSIVE StringifyElems(_, _)
JSONstringify(x) ==
  CASE x.t = "null" -> NullText
    [] x.t = "nan" -> NullText
    [] x.t = "undef" -> NullText
    [] x.t = "bool" -> IF x.v = 1 THEN TrueText ELSE FalseText
    [] x.t = "num" -> NumText(x.v)
    [] x.t = "str" -> Quote(x.v)
    [] x.t = "arr" -> <<"[">> \o StringifyElems(x.v, TRUE) \o <<"]">>
    [] OTHER -> <<"{">> \o StringifyMembers(x.v, TRUE) \o <<"}">>

StringifyMembers(ms, first) ==
  IF ms = <<>> THEN <<>>
  ELSE IF Head(ms)[2].t = "undef" THEN StringifyMembers(Tail(ms), first)
  ELSE (IF first THEN <<>> ELSE <<",">>)
       \o Quote(Head(ms)[1]) \o <<":">> \o JSONstringify(Head(ms)[2])
       \o StringifyMembers(Tail(ms), FALSE)

StringifyElems(es, first) ==
  IF es = <<>> THEN <<>>
  ELSE (IF first THEN <<>> ELSE <<",">>)
       \o JSONstringify(Head(es)) \o StringifyElems(Tail(es), FALSE)

-----------------------------------------------------------------------------
(* JSON.parse: a recursive-descent reader over the text s, by position.     *)
(* A result is [ok, v, i]: success, the value, the next position.           *)

ParseFail == [ok |-> FALSE, v |-> JNull, i |-> 0]

IsWs(c) == c = " " \/ c = "\n"

RECURSIVE SkipWs(_, _)
SkipWs(s, i) == IF i <= Len(s) /\ IsWs(s[i]) THEN SkipWs(s, i + 1) ELSE i

\* Whether the literal w stands at position i of s.
Lit(s, i, w) == i + Len(w) - 1 <= Len(s) /\ \A j \in 1..Len(w) : s[i + j - 1] = w[j]

\* The body of a string from position i (after the opening quote).
RECURSIVE ParseStringBody(_, _, _)
ParseStringBody(s, i, acc) ==
  IF i > Len(s) THEN ParseFail
  ELSE IF s[i] = "\"" THEN [ok |-> TRUE, v |-> JStr(acc), i |-> i + 1]
  ELSE IF s[i] = "\n" THEN ParseFail
  ELSE IF s[i] = "\\" THEN
    IF i + 1 > Len(s) THEN ParseFail
    ELSE IF s[i + 1] \in {"\"", "\\", "/"} THEN ParseStringBody(s, i + 2, Append(acc, s[i + 1]))
    ELSE IF s[i + 1] = "n" THEN ParseStringBody(s, i + 2, Append(acc, "\n"))
    ELSE ParseFail
  ELSE ParseStringBody(s, i + 1, Append(acc, s[i]))

RECURSIVE ParseDigits(_, _, _)
ParseDigits(s, i, acc) ==
  IF i <= Len(s) /\ s[i] \in DigitSet
  THEN ParseDigits(s, i + 1, acc * 10 + DigitVal(s[i]))
  ELSE [ok |-> TRUE, v |-> JNum(acc), i |-> i]

\* An integer: an optional sign, then 0 or a nonzero digit and more digits.
ParseNumber(s, i) ==
  LET neg == s[i] = "-"
      j == IF neg THEN i + 1 ELSE i
  IN  IF j > Len(s) \/ s[j] \notin DigitSet THEN ParseFail
      ELSE LET r == IF s[j] = "0" THEN [ok |-> TRUE, v |-> JNum(0), i |-> j + 1]
                    ELSE ParseDigits(s, j, 0)
           IN  IF r.i <= Len(s) /\ s[r.i] \in DigitSet \cup {".", "e", "E"} THEN ParseFail
               ELSE [ok |-> TRUE, v |-> JNum(IF neg THEN -r.v.v ELSE r.v.v), i |-> r.i]

RECURSIVE ParseValue(_, _)
RECURSIVE ParseElems(_, _, _)
RECURSIVE ParseMembers(_, _, _)
ParseValue(s, i0) ==
  LET i == SkipWs(s, i0)
  IN  IF i > Len(s) THEN ParseFail
      ELSE CASE s[i] = "{" ->
                  LET j == SkipWs(s, i + 1)
                  IN  IF j <= Len(s) /\ s[j] = "}"
                      THEN [ok |-> TRUE, v |-> JObj(<<>>), i |-> j + 1]
                      ELSE ParseMembers(s, j, <<>>)
             [] s[i] = "[" ->
                  LET j == SkipWs(s, i + 1)
                  IN  IF j <= Len(s) /\ s[j] = "]"
                      THEN [ok |-> TRUE, v |-> JArr(<<>>), i |-> j + 1]
                      ELSE ParseElems(s, j, <<>>)
             [] s[i] = "\"" -> ParseStringBody(s, i + 1, <<>>)
             [] s[i] = "-" \/ s[i] \in DigitSet -> ParseNumber(s, i)
             [] Lit(s, i, NullText) -> [ok |-> TRUE, v |-> JNull, i |-> i + 4]
             [] Lit(s, i, TrueText) -> [ok |-> TRUE, v |-> JTrue, i |-> i + 4]
             [] Lit(s, i, FalseText) -> [ok |-> TRUE, v |-> JFalse, i |-> i + 5]
             [] OTHER -> ParseFail

\* The elements of an array from position i, up to its closing bracket.
ParseElems(s, i, acc) ==
  LET e == ParseValue(s, i)
  IN  IF ~e.ok THEN ParseFail
      ELSE LET j == SkipWs(s, e.i)
           IN  IF j > Len(s) THEN ParseFail
               ELSE IF s[j] = "]" THEN [ok |-> TRUE, v |-> JArr(Append(acc, e.v)), i |-> j + 1]
               ELSE IF s[j] = "," THEN ParseElems(s, j + 1, Append(acc, e.v))
               ELSE ParseFail

\* The members of an object from position i, up to its closing brace.
ParseMembers(s, i0, acc) ==
  LET i == SkipWs(s, i0)
  IN  IF i > Len(s) \/ s[i] # "\"" THEN ParseFail
      ELSE LET k == ParseStringBody(s, i + 1, <<>>)
           IN  IF ~k.ok THEN ParseFail
               ELSE LET c == SkipWs(s, k.i)
                    IN  IF c > Len(s) \/ s[c] # ":" THEN ParseFail
                        ELSE LET e == ParseValue(s, c + 1)
                             IN  IF ~e.ok THEN ParseFail
                                 ELSE LET j == SkipWs(s, e.i)
                                          ms == SetKey(acc, k.v.v, e.v)
                                      IN  IF j > Len(s) THEN ParseFail
                                          ELSE IF s[j] = "}"
                                            THEN [ok |-> TRUE, v |-> JObj(ms), i |-> j + 1]
                                          ELSE IF s[j] = ","
                                            THEN ParseMembers(s, j + 1, ms)
                                          ELSE ParseFail

\* JSON.parse(text): [ok, v]; ok is FALSE where JSON.parse throws.
ParseWhole(s, r) ==
  IF r.ok /\ SkipWs(s, r.i) > Len(s) THEN [ok |-> TRUE, v |-> r.v]
  ELSE [ok |-> FALSE, v |-> JNull]

JSONparse(s) == ParseWhole(s, ParseValue(s, 1))

-----------------------------------------------------------------------------
(* Frame codec, controller side (protocol.ts)                               *)

PREFIX == <<"[", "M", "C", "P", "_", "B", "R", "I", "D", "G", "E", ":">>
SUFFIX == <<"]">>

K_id == <<"i", "d">>
K_type == <<"t", "y", "p", "e">>
K_command == <<"c", "o", "m", "m", "a", "n", "d">>
K_payload == <<"p", "a", "y", "l", "o", "a", "d">>
K_error == <<"e", "r", "r", "o", "r">>
K_code == <<"c", "o", "d", "e">>
K_message == <<"m", "e", "s", "s", "a", "g", "e">>

T_request == <<"r", "e", "q", "u", "e", "s", "t">>
T_response == <<"r", "e", "s", "p", "o", "n", "s", "e">>
T_event == <<"e", "v", "e", "n", "t">>
MessageTypes == {T_request, T_response, T_event}

\* String.prototype.startsWith / endsWith / indexOf / slice, 0-based as in
\* the source; indexOf gives -1 when the pattern does not occur.
startsWith(s, p) == Len(s) >= Len(p) /\ \A j \in 1..Len(p) : s[j] = p[j]
endsWith(s, p) == Len(s) >= Len(p) /\ \A j \in 1..Len(p) : s[Len(s) - Len(p) + j] = p[j]

indexOf(s, p, from) ==
  LET at == {i \in from..(Len(s) - Len(p)) : \A j \in 1..Len(p) : s[i + j] = p[j]}
  IN  IF at = {} THEN -1 ELSE CHOOSE i \in at : \A k \in at : i <= k

slice(s, a, b) == SubSeq(s, a + 1, b)

\* Mutant of encodeMessage: the JSON text is framed as it is.
encodeMessageRaw(msg) == PREFIX \o JSONstringify(msg) \o SUFFIX

encodeMessage(msg) ==
  LET json == JSONstringify(msg)
      base64 == Base64Encode(Utf8Encode(json))
  IN  PREFIX \o base64 \o SUFFIX

-----------------------------------------------------------------------------
(* The messages of the two sides, and their lines on the wire               *)

\* A message object, its fields in the order the senders write them.
MsgOf(id, type, command, rest) ==
  JObj(<< <<K_id, JStr(id)>>, <<K_type, JStr(type)>>, <<K_command, JStr(command)>> >> \o rest)

ErrorOf(code, message) ==
  JObj(<< <<K_code, JStr(code)>>, <<K_message, JStr(message)>> >>)

MaxCalls == 2
MaxChunks == 2
MaxCuts == 1

CallIds == 1..MaxCalls

\* The id of a call: fresh for every call, as randomUUID gives it.
IdText(n) == NatText(n)

C_handshake == <<"h", "a", "n", "d", "s", "h", "a", "k", "e">>
C_get_node == <<"g", "e", "t", "_", "n", "o", "d", "e">>
DirectCommands == {C_get_node}

K_version == <<"v", "e", "r", "s", "i", "o", "n">>
K_capabilities == <<"c", "a", "p", "a", "b", "i", "l", "i", "t", "i", "e", "s">>
V_1_0 == <<"1", ".", "0">>
V_unknown == <<"u", "n", "k", "n", "o", "w", "n">>
Cap_nodes == <<"n", "o", "d", "e", "s">>

HandshakeRequestPayload == JObj(<< <<K_version, JStr(V_1_0)>> >>)
DirectRequestPayload == JObj(<<>>)

RequestPayload(command) ==
  IF command = C_handshake THEN HandshakeRequestPayload ELSE DirectRequestPayload

\* The request message of call n, as sendRequest builds it.
RequestOf(n, command) ==
  MsgOf(IdText(n), T_request, command, << <<K_payload, RequestPayload(command)>> >>)

HandshakeInfo ==
  JObj(<< <<K_version, JStr(V_1_0)>>, <<K_capabilities, JArr(<<JStr(Cap_nodes)>>)>> >>)

Variants == {"info", "empty", "null", "error"}

\* What the target answers to a command: any of the above to a handshake,
\* a result or an error to the rest.
VariantsFor(command) == IF command = C_handshake THEN Variants ELSE {"empty", "error"}

ResponseOf(n, command, v) ==
  MsgOf(IdText(n), T_response, command,
        CASE v = "info" -> << <<K_payload, HandshakeInfo>> >>
          [] v = "empty" -> << <<K_payload, JObj(<<>>)>> >>
          [] v = "null" -> << <<K_payload, JNull>> >>
          [] OTHER -> << <<K_payload, JNull>>, <<K_error, ErrorOf(<<"E">>, <<"n", "o">>)>> >>)

Line(frame) == frame \o <<"\n">>

\* The response lines the target can print, computed once.
WireFrame ==
  [n \in 1..(MaxCalls + 1), c \in DirectCommands \cup {C_handshake}, v \in Variants |->
     Line(encodeMessage(ResponseOf(n, c, v)))]

\* A response to a request nobody made, an event and a request-kind message
\* that carry the id of the first call, console text.
StrayFrame == WireFrame[MaxCalls + 1, C_get_node, "empty"]
EventFrame ==
  Line(encodeMessage(MsgOf(IdText(1), T_event, <<"e", "v">>, << <<K_payload, JNull>> >>)))
EchoFrame ==
  Line(encodeMessage(MsgOf(IdText(1), T_request, C_get_node, << <<K_payload, JNull>> >>)))
ConsoleText == <<"o", "k", "\n">>

\* The request lines the client can write, computed once.
RequestLine ==
  [n \in CallIds, c \in DirectCommands \cup {C_handshake} |-> Line(encodeMessage(RequestOf(n, c)))]

KnownFrames ==
  {slice(f, 0, Len(f) - 1) :
     f \in {WireFrame[x] : x \in DOMAIN WireFrame} \cup {EventFrame, EchoFrame}}

-----------------------------------------------------------------------------
(* Decoding and extraction (protocol.ts)                                    *)

\* The message, or JNull where the source returns null.
\* What a caller would see if an exception left the decoder.
Raised == [t |-> "raised", v |-> 0]

\* Mutant of validated: the exceptions of the parser and of the field reads
\* are not caught.
validatedNoCatch(parsed) ==
  IF ~parsed.ok THEN Raised
  ELSE IF parsed.v.t = "null" THEN Raised
  ELSE IF Get(parsed.v, K_id).t # "str"
          \/ Get(parsed.v, K_type).t # "str"
          \/ Get(parsed.v, K_type).v \notin MessageTypes
          \/ Get(parsed.v, K_command).t # "str"
       THEN JNull
  ELSE parsed.v

\* The validation of decodeMessage: the parsed text if it has the shape of a
\* message, JNull otherwise.
validated(parsed) ==
  IF ~parsed.ok THEN JNull
  \* reading a property of null throws; the catch returns null
  ELSE IF parsed.v.t = "null" THEN JNull
  ELSE IF Get(parsed.v, K_id).t # "str"
          \/ Get(parsed.v, K_type).t # "str"
          \/ Get(parsed.v, K_type).v \notin MessageTypes
          \/ Get(parsed.v, K_command).t # "str"
       THEN JNull
  ELSE parsed.v

decodeMessage(line) ==
  IF ~startsWith(line, PREFIX) \/ ~endsWith(line, SUFFIX) THEN JNull
  ELSE LET base64 == slice(line, Len(PREFIX), Len(line) - Len(SUFFIX))
           json == Utf8Decode(Base64DecodeLenient(base64))
       IN  validated(JSONparse(json))

\* decodeMessage of the lines the target model prints, computed once.
DecodedLines == [f \in KnownFrames |-> decodeMessage(f)]

\* decodeMessage, looked up where it was computed before.
decodeMessageOnce(line) ==
  IF line \in KnownFrames THEN DecodedLines[line] ELSE decodeMessage(line)

\* if (decoded) messages.push(decoded)
pushDecoded(messages, decoded) ==
  IF decoded # JNull THEN Append(messages, decoded) ELSE messages

\* Mutant of ExtractLoop: the suffix is searched from the start of the buffer.
RECURSIVE ExtractLoopSuffixFromStart(_, _, _)
ExtractLoopSuffixFromStart(messages, remaining, nonBridgeText) ==
  LET startIdx == indexOf(remaining, PREFIX, 0)
  IN  IF startIdx = -1
      THEN [messages |-> messages, remaining |-> <<>>,
            nonBridgeText |-> nonBridgeText \o remaining]
      ELSE
        LET text == IF startIdx > 0 THEN nonBridgeText \o slice(remaining, 0, startIdx)
                    ELSE nonBridgeText
            endIdx == indexOf(remaining, SUFFIX, 0)
        IN  IF endIdx = -1
            THEN [messages |-> messages,
                  remaining |-> slice(remaining, startIdx, Len(remaining)),
                  nonBridgeText |-> text]
            ELSE
              LET fullMessage == slice(remaining, startIdx, endIdx + Len(SUFFIX))
                  rest == slice(remaining, endIdx + Len(SUFFIX), Len(remaining))
              IN  ExtractLoopSuffixFromStart(pushDecoded(messages, decodeMessageOnce(fullMessage)), rest, text)

\* Mutant of ExtractLoop: an unfinished frame is handed out as console text.
RECURSIVE ExtractLoopTailAsText(_, _, _)
ExtractLoopTailAsText(messages, remaining, nonBridgeText) ==
  LET startIdx == indexOf(remaining, PREFIX, 0)
  IN  IF startIdx = -1
      THEN [messages |-> messages, remaining |-> <<>>,
            nonBridgeText |-> nonBridgeText \o remaining]
      ELSE
        LET text == IF startIdx > 0 THEN nonBridgeText \o slice(remaining, 0, startIdx)
                    ELSE nonBridgeText
            endIdx == indexOf(remaining, SUFFIX, startIdx)
        IN  IF endIdx = -1
            THEN [messages |-> messages,
                  remaining |-> <<>>,
                  nonBridgeText |-> text \o slice(remaining, startIdx, Len(remaining))]
            ELSE
              LET fullMessage == slice(remaining, startIdx, endIdx + Len(SUFFIX))
                  rest == slice(remaining, endIdx + Len(SUFFIX), Len(remaining))
              IN  ExtractLoopTailAsText(pushDecoded(messages, decodeMessageOnce(fullMessage)), rest, text)

\* Mutant of ExtractLoop: the scan ends at the first span that does not decode.
RECURSIVE ExtractLoopStopOnBadSpan(_, _, _)
ExtractLoopStopOnBadSpan(messages, remaining, nonBridgeText) ==
  LET startIdx == indexOf(remaining, PREFIX, 0)
  IN  IF startIdx = -1
      THEN [messages |-> messages, remaining |-> <<>>,
            nonBridgeText |-> nonBridgeText \o remaining]
      ELSE
        LET text == IF startIdx > 0 THEN nonBridgeText \o slice(remaining, 0, startIdx)
                    ELSE nonBridgeText
            endIdx == indexOf(remaining, SUFFIX, startIdx)
        IN  IF endIdx = -1
            THEN [messages |-> messages,
                  remaining |-> slice(remaining, startIdx, Len(remaining)),
                  nonBridgeText |-> text]
            ELSE
              LET fullMessage == slice(remaining, startIdx, endIdx + Len(SUFFIX))
                  rest == slice(remaining, endIdx + Len(SUFFIX), Len(remaining))
                  decoded == decodeMessageOnce(fullMessage)
              IN  IF decoded = JNull
                  THEN [messages |-> messages, remaining |-> rest, nonBridgeText |-> text]
                  ELSE ExtractLoopStopOnBadSpan(Append(messages, decoded), rest, text)

\* Mutant of ExtractLoop: the text before a prefix token is not collected.
RECURSIVE ExtractLoopDropsText(_, _, _)
ExtractLoopDropsText(messages, remaining, nonBridgeText) ==
  LET startIdx == indexOf(remaining, PREFIX, 0)
  IN  IF startIdx = -1
      THEN [messages |-> messages, remaining |-> <<>>,
            nonBridgeText |-> nonBridgeText \o remaining]
      ELSE
        LET endIdx == indexOf(remaining, SUFFIX, startIdx)
        IN  IF endIdx = -1
            THEN [messages |-> messages,
                  remaining |-> slice(remaining, startIdx, Len(remaining)),
                  nonBridgeText |-> nonBridgeText]
            ELSE
              LET fullMessage == slice(remaining, startIdx, endIdx + Len(SUFFIX))
                  rest == slice(remaining, endIdx + Len(SUFFIX), Len(remaining))
              IN  ExtractLoopDropsText(pushDecoded(messages, decodeMessageOnce(fullMessage)),
                                       rest, nonBridgeText)

\* The scan loop of extractMessages, from one iteration to its result.
RECURSIVE ExtractLoop(_, _, _)
ExtractLoop(messages, remaining, nonBridgeText) ==
  LET startIdx == indexOf(remaining, PREFIX, 0)
  IN  IF startIdx = -1
      THEN [messages |-> messages, remaining |-> <<>>,
            nonBridgeText |-> nonBridgeText \o remaining]
      ELSE
        LET text == IF startIdx > 0 THEN nonBridgeText \o slice(remaining, 0, startIdx)
                    ELSE nonBridgeText
            endIdx == indexOf(remaining, SUFFIX, startIdx)
        IN  IF endIdx = -1
            THEN [messages |-> messages,
                  remaining |-> slice(remaining, startIdx, Len(remaining)),
                  nonBridgeText |-> text]
            ELSE
              LET fullMessage == slice(remaining, startIdx, endIdx + Len(SUFFIX))
                  rest == slice(remaining, endIdx + Len(SUFFIX), Len(remaining))
              IN  ExtractLoop(pushDecoded(messages, decodeMessageOnce(fullMessage)), rest, text)

extractMessages(text) == ExtractLoop(<<>>, text, <<>>)

-----------------------------------------------------------------------------
(* Correlation client (bridge-client.ts)                                    *)

\* Truthiness of a value, as  if (x)  and  x || y  take it.
Truthy(x) ==
  CASE x.t \in {"null", "undef", "nan"} -> FALSE
    [] x.t \in {"bool", "num"} -> x.v # 0
    [] x.t = "str" -> x.v # <<>>
    [] OTHER -> TRUE

\* A value inside a template literal.
TemplateText(x) ==
  CASE x.t = "str" -> x.v
    [] x.t = "num" -> NumText(x.v)
    [] x.t = "null" -> NullText
    [] x.t = "bool" -> (IF x.v = 1 THEN TrueText ELSE FalseText)
    [] x.t = "nan" -> <<"N", "a", "N">>
    [] x.t = "undef" -> <<"u", "n", "d", "e", "f", "i", "n", "e", "d">>
    [] OTHER -> <<"[", "o", "b", "j", "e", "c", "t", "]">>

NoCall == [command |-> <<>>, caller |-> "none", outcome |-> "none", value |-> JNull,
           returned |-> "none"]

\* The promise of a call settles once; later resolve and reject calls do nothing.
Settle(call, outcome, value) ==
  IF call.outcome = "pending" THEN [call EXCEPT !.outcome = outcome, !.value = value] ELSE call

clearTimeout(t) == IF t = "armed" THEN "cleared" ELSE t

\* Mutant of PendingGet: the entry is looked up without regard to the id.
PendingGetAny(pending, id) == pending

\* pendingRequests.get(id): the entries stored under that id.
PendingGet(pending, id) == {n \in pending : JStr(IdText(n)) = id}

\* What a handler works on: the pending map with its timers and promises, the
\* observed events, and the calls settled by the handler, in order.
HandlerState ==
  [pending |-> pendingRequests, timers |-> timers, calls |-> calls, events |-> eventsSeen,
   settled |-> <<>>]

SettleIn(st, n, outcome, value) ==
  [st EXCEPT !.calls[n] = Settle(@, outcome, value),
             !.settled = IF st.calls[n].outcome = "pending" THEN Append(@, n) ELSE @]

\* Mutant of handleMessage: an event is routed like a response.
handleMessageAnyKind(st, msg) ==
  IF Get(msg, K_type) \in {JStr(T_response), JStr(T_event)}
  THEN LET hit == PendingGet(st.pending, Get(msg, K_id))
       IN  IF hit = {} THEN st
           ELSE LET n == CHOOSE n \in hit : TRUE
                    s1 == [st EXCEPT !.timers[n] = clearTimeout(@), !.pending = @ \ {n}]
                    err == Get(msg, K_error)
                IN  IF Truthy(err)
                    THEN SettleIn(s1, n, "error_response",
                                  JStr(TemplateText(Get(err, K_code)) \o <<":", " ">>
                                       \o TemplateText(Get(err, K_message))))
                    ELSE SettleIn(s1, n, "resolved", Get(msg, K_payload))
  ELSE st

\* Mutant of handleMessage: the entry of an answered request stays in the map
\* and its timer keeps running.
handleMessageKeepsEntry(st, msg) ==
  IF Get(msg, K_type) = JStr(T_response)
  THEN LET hit == PendingGet(st.pending, Get(msg, K_id))
       IN  IF hit = {} THEN st
           ELSE LET n == CHOOSE n \in hit : TRUE
                    err == Get(msg, K_error)
                IN  IF Truthy(err)
                    THEN SettleIn(st, n, "error_response",
                                  JStr(TemplateText(Get(err, K_code)) \o <<":", " ">>
                                       \o TemplateText(Get(err, K_message))))
                    ELSE SettleIn(st, n, "resolved", Get(msg, K_payload))
  ELSE IF Get(msg, K_type) = JStr(T_event)
  THEN [st EXCEPT !.events = IF listening THEN Append(@, msg) ELSE @]
  ELSE st

handleMessage(st, msg) ==
  IF Get(msg, K_type) = JStr(T_response)
  THEN LET hit == PendingGet(st.pending, Get(msg, K_id))
       IN  IF hit = {} THEN st
           ELSE LET n == CHOOSE n \in hit : TRUE
                    s1 == [st EXCEPT !.timers[n] = clearTimeout(@), !.pending = @ \ {n}]
                    err == Get(msg, K_error)
                IN  IF Truthy(err)
                    THEN SettleIn(s1, n, "error_response",
                                  JStr(TemplateText(Get(err, K_code)) \o <<":", " ">>
                                       \o TemplateText(Get(err, K_message))))
                    ELSE SettleIn(s1, n, "resolved", Get(msg, K_payload))
  ELSE IF Get(msg, K_type) = JStr(T_event)
  THEN [st EXCEPT !.events = IF listening THEN Append(@, msg) ELSE @]
  ELSE st

RECURSIVE HandleAll(_, _)
HandleAll(st, messages) ==
  IF messages = <<>> THEN st ELSE HandleAll(handleMessage(st, Head(messages)), Tail(messages))

RECURSIVE Ascending(_)
Ascending(S) ==
  IF S = {} THEN <<>>
  ELSE LET m == CHOOSE x \in S : \A y \in S : x <= y IN <<m>> \o Ascending(S \ {m})

\* Mutant of rejectAllPending: the timers are left running.
RejectAllKeepTimers(st, outcome) ==
  [pending |-> {},
   timers |-> st.timers,
   calls |-> [n \in CallIds |->
                IF n \in st.pending THEN Settle(st.calls[n], outcome, JNull) ELSE st.calls[n]],
   events |-> st.events,
   settled |-> st.settled
                 \o Ascending({n \in st.pending : st.calls[n].outcome = "pending"})]

\* Every entry of the map, in insertion order: timer cleared, promise rejected,
\* entry deleted.
rejectAllPending(st, outcome) ==
  [pending |-> {},
   timers |-> [n \in CallIds |-> IF n \in st.pending THEN clearTimeout(st.timers[n])
                                 ELSE st.timers[n]],
   calls |-> [n \in CallIds |->
                IF n \in st.pending THEN Settle(st.calls[n], outcome, JNull) ELSE st.calls[n]],
   events |-> st.events,
   settled |-> st.settled
                 \o Ascending({n \in st.pending : st.calls[n].outcome = "pending"})]

\* Mutant of TimeoutCallback: the entry stays in the map.
TimeoutCallbackKeepsEntry(st, n) ==
  SettleIn([st EXCEPT !.timers[n] = "fired"], n, "timed_out", JNull)

\* The timer callback of a call: entry deleted, promise rejected.
TimeoutCallback(st, n) ==
  SettleIn([st EXCEPT !.timers[n] = "fired", !.pending = @ \ {n}], n, "timed_out", JNull)

\* Mutant of NotConnectedGate: every command passes.
NotConnectedGateOpen(connected, command) == FALSE

NotConnectedGate(connected, command) == ~connected /\ command # C_handshake

\* Mutant of HandshakeContinue: the capability list of the response is not
\* stored.
HandshakeContinueKeepsCaps(conn, call) ==
  IF call.outcome = "resolved"
  THEN IF call.value.t \in {"null", "undef"}
       THEN [conn |-> [conn EXCEPT !.isConnected = FALSE], returned |-> "false"]
       ELSE LET ver == Get(call.value, K_version)
            IN  [conn |-> [isConnected |-> TRUE,
                           capabilities |-> conn.capabilities,
                           version |-> IF Truthy(ver) THEN ver ELSE JStr(V_unknown)],
                 returned |-> "true"]
  ELSE [conn |-> [conn EXCEPT !.isConnected = FALSE], returned |-> "false"]

\* Mutant of HandshakeContinue: the rejection of the awaited promise is not
\* caught.
HandshakeContinueNoCatch(conn, call) ==
  IF call.outcome = "resolved"
  THEN IF call.value.t \in {"null", "undef"}
       THEN [conn |-> [conn EXCEPT !.isConnected = TRUE], returned |-> "raised"]
       ELSE LET caps == Get(call.value, K_capabilities)
                ver == Get(call.value, K_version)
            IN  [conn |-> [isConnected |-> TRUE,
                           capabilities |-> IF Truthy(caps) THEN caps ELSE JArr(<<>>),
                           version |-> IF Truthy(ver) THEN ver ELSE JStr(V_unknown)],
                 returned |-> "true"]
  ELSE [conn |-> conn, returned |-> "raised"]

\* handshake() after its await: the part that runs once the promise of its
\* sendRequest call has settled.
HandshakeContinue(conn, call) ==
  IF call.outcome = "resolved"
  THEN IF call.value.t \in {"null", "undef"}
       THEN [conn |-> [conn EXCEPT !.isConnected = FALSE], returned |-> "false"]
       ELSE LET caps == Get(call.value, K_capabilities)
                ver == Get(call.value, K_version)
            IN  [conn |-> [isConnected |-> TRUE,
                           capabilities |-> IF Truthy(caps) THEN caps ELSE JArr(<<>>),
                           version |-> IF Truthy(ver) THEN ver ELSE JStr(V_unknown)],
                 returned |-> "true"]
  ELSE [conn |-> [conn EXCEPT !.isConnected = FALSE], returned |-> "false"]

\* The continuations of the calls a handler settled run after the handler,
\* in the order of settlement.
RECURSIVE RunContinuations(_, _, _)
RunContinuations(settled, conn, cs) ==
  IF settled = <<>> THEN [conn |-> conn, calls |-> cs]
  ELSE LET n == Head(settled)
       IN  IF cs[n].caller = "handshake"
           THEN LET k == HandshakeContinue(conn, cs[n])
                IN  RunContinuations(Tail(settled), k.conn,
                                     [cs EXCEPT ![n].returned = k.returned])
           ELSE RunContinuations(Tail(settled), conn, cs)

\* The state a handler leaves, its continuations included.
Commit(st, connected) ==
  LET k == RunContinuations(st.settled,
                            [isConnected |-> connected, capabilities |-> capabilities,
                             version |-> version],
                            st.calls)
  IN  /\ pendingRequests' = st.pending
      /\ timers' = st.timers
      /\ calls' = k.calls
      /\ eventsSeen' = st.events
      /\ isConnected' = k.conn.isConnected
      /\ capabilities' = k.conn.capabilities
      /\ version' = k.conn.version

hasCapability(cap) ==
  capabilities.t = "arr" /\ \E i \in 1..Len(capabilities.v) : capabilities.v[i] = JStr(cap)

\* What the target prints next: the response to a request it has read and not
\* answered yet (n is the call), or something nobody asked for (n = 0).
Chunks ==
  UNION {{[n |-> n, text |-> WireFrame[n, calls[n].command, v]] :
            v \in VariantsFor(calls[n].command)} : n \in answerable}
    \cup {[n |-> 0, text |-> t] : t \in {EventFrame \o ConsoleText \o StrayFrame \o EchoFrame}}

\* Where the pipe may cut a chunk in two: inside the prefix token, after it.
CutPoints == {5, 14}

\* The chunk c cut at k, or whole for k = 0: what arrives first, and the rest.
CutAt(c, k) ==
  IF k = 0 \/ k >= Len(c.text) THEN [n |-> c.n, text |-> c.text, rest |-> <<>>]
  ELSE [n |-> c.n, text |-> slice(c.text, 0, k), rest |-> slice(c.text, k, Len(c.text))]

\* What can arrive next on the output stream: the rest of a chunk that was cut,
\* else a new chunk, whole or its first part.
Arrivals ==
  IF wireRest # <<>> THEN {[n |-> 0, text |-> wireRest, rest |-> <<>>]}
  ELSE IF chunksLeft = 0 THEN {}
  ELSE {CutAt(c, k) : c \in Chunks,
                      k \in {0} \cup (IF cutsLeft > 0 THEN CutPoints ELSE {})}

ClientInit ==
  /\ isConnected = FALSE
  /\ capabilities = JArr(<<>>)
  /\ version = JStr(<<>>)
  /\ buffer = <<>>
  /\ pendingRequests = {}
  /\ timers = [n \in CallIds |-> "none"]
  /\ calls = [n \in CallIds |-> NoCall]
  /\ nextCall = 1
  /\ stdinWritten = <<>>
  /\ eventsSeen = <<>>
  /\ textSeen = <<>>
  /\ disconnects = 0
  /\ listening = TRUE
  /\ procState = "running"
  /\ procEvents = {}
  /\ answerable = {}
  /\ chunksLeft = MaxChunks
  /\ cutsLeft = MaxCuts
  /\ wireRest = <<>>
  /\ lastHandled = <<>>

\* sendRequest(command, payload), called by caller.
SendRequestCall(command, caller) ==
  /\ nextCall <= MaxCalls
  /\ LET n == nextCall
     IN  /\ nextCall' = n + 1
         /\ IF NotConnectedGate(isConnected, command)
            THEN /\ calls' = [calls EXCEPT ![n] = [command |-> command, caller |-> caller,
                                                   outcome |-> "not_connected",
                                                   value |-> JNull, returned |-> "none"]]
                 /\ UNCHANGED <<pendingRequests, timers, stdinWritten, answerable>>
            ELSE /\ calls' = [calls EXCEPT ![n] = [command |-> command, caller |-> caller,
                                                   outcome |-> "pending",
                                                   value |-> JNull, returned |-> "none"]]
                 /\ timers' = [timers EXCEPT ![n] = "armed"]
                 /\ pendingRequests' = pendingRequests \cup {n}
                 /\ stdinWritten' = Append(stdinWritten, RequestLine[n, command])
                 /\ answerable' = IF procState = "running" THEN answerable \cup {n}
                                  ELSE answerable
  /\ lastHandled' = <<>>
  /\ UNCHANGED <<isConnected, capabilities, version, buffer, eventsSeen, textSeen, disconnects,
                 listening, procState, procEvents, chunksLeft, cutsLeft, wireRest>>
  /\ UNCHANGED <<cvars, pvars, dvars, tvars>>

\* A tool handler calls sendRequest.
SendRequest == \E command \in DirectCommands : SendRequestCall(command, "direct")

\* handshake() up to its await.
Handshake == SendRequestCall(C_handshake, "handshake")

\* processBuffer(), given the result r of extractMessages on the buffer, and
\* the continuations of what its handleMessage calls settled.
processBuffer(r) ==
  /\ buffer' = r.remaining
  /\ textSeen' = IF r.nonBridgeText # <<>> /\ listening
                 THEN Append(textSeen, r.nonBridgeText) ELSE textSeen
  /\ lastHandled' = r.messages
  /\ Commit(HandleAll(HandlerState, r.messages), isConnected)

\* A chunk arrives on the output stream of the target: the "data" handler with
\* processBuffer, then the continuations of what it settled.
OnData ==
  /\ \E chunk \in Arrivals :
       /\ processBuffer(extractMessages(buffer \o chunk.text))
       /\ wireRest' = chunk.rest
       /\ answerable' = answerable \ {chunk.n}
       /\ chunksLeft' = IF wireRest = <<>> THEN chunksLeft - 1 ELSE chunksLeft
       /\ cutsLeft' = IF chunk.rest # <<>> THEN cutsLeft - 1 ELSE cutsLeft
  /\ UNCHANGED <<nextCall, stdinWritten, disconnects, listening, procState, procEvents>>
  /\ UNCHANGED <<cvars, pvars, dvars, tvars>>

\* The timer of a call expires.
TimerFires ==
  /\ \E n \in CallIds :
       /\ timers[n] = "armed"
       /\ Commit(TimeoutCallback(HandlerState, n), isConnected)
  /\ lastHandled' = <<>>
  /\ UNCHANGED <<buffer, nextCall, stdinWritten, textSeen, disconnects, listening, procState,
                 procEvents, answerable, chunksLeft, cutsLeft, wireRest>>
  /\ UNCHANGED <<cvars, pvars, dvars, tvars>>

\* Mutant of ProcessExit: the connection flag is left as it was.
ProcessExitStaysConnected ==
  /\ "exit" \notin procEvents
  /\ procEvents' = procEvents \cup {"exit"}
  /\ procState' = "exited"
  /\ Commit(rejectAllPending(HandlerState, "process_exited"), isConnected)
  /\ disconnects' = IF listening THEN disconnects + 1 ELSE disconnects
  /\ lastHandled' = <<>>
  /\ UNCHANGED <<buffer, nextCall, stdinWritten, textSeen, listening, answerable, chunksLeft,
                 cutsLeft, wireRest>>
  /\ UNCHANGED <<cvars, pvars, dvars, tvars>>

\* The "exit" event of the target process.
ProcessExit ==
  /\ "exit" \notin procEvents
  /\ procEvents' = procEvents \cup {"exit"}
  /\ procState' = "exited"
  /\ Commit(rejectAllPending(HandlerState, "process_exited"), FALSE)
  /\ disconnects' = IF listening THEN disconnects + 1 ELSE disconnects
  /\ lastHandled' = <<>>
  /\ UNCHANGED <<buffer, nextCall, stdinWritten, textSeen, listening, answerable, chunksLeft,
                 cutsLeft, wireRest>>
  /\ UNCHANGED <<cvars, pvars, dvars, tvars>>

\* The "error" event of the target process.
ProcessError ==
  /\ "error" \notin procEvents
  /\ procState = "running"
  /\ procEvents' = procEvents \cup {"error"}
  /\ Commit(rejectAllPending(HandlerState, "process_error"), FALSE)
  /\ disconnects' = IF listening THEN disconnects + 1 ELSE disconnects
  /\ lastHandled' = <<>>
  /\ UNCHANGED <<buffer, nextCall, stdinWritten, textSeen, listening, procState, answerable,
                 chunksLeft, cutsLeft, wireRest>>
  /\ UNCHANGED <<cvars, pvars, dvars, tvars>>

\* destroy()
Destroy ==
  /\ listening
  /\ listening' = FALSE
  /\ Commit(rejectAllPending(HandlerState, "destroyed"), isConnected)
  /\ lastHandled' = <<>>
  /\ UNCHANGED <<buffer, nextCall, stdinWritten, textSeen, disconnects, procState, procEvents,
                 answerable, chunksLeft, cutsLeft, wireRest>>
  /\ UNCHANGED <<cvars, pvars, dvars, tvars>>

ClientNext ==
  SendRequest \/ Handshake \/ OnData \/ TimerFires \/ ProcessExit \/ ProcessError \/ Destroy

-----------------------------------------------------------------------------
(* Frame codec, target side (mcp_protocol.gd)                               *)

\* The order of strings: by character code, a proper prefix first.
RECURSIVE LessText(_, _)
LessText(a, b) ==
  IF b = <<>> THEN FALSE
  ELSE IF a = <<>> THEN TRUE
  ELSE IF Head(a) = Head(b) THEN LessText(Tail(a), Tail(b))
  ELSE Utf8Byte(Head(a)) < Utf8Byte(Head(b))

RECURSIVE InsertMember(_, _)
InsertMember(ms, m) ==
  IF ms = <<>> THEN <<m>>
  ELSE IF LessText(m[1], Head(ms)[1]) THEN <<m>> \o ms
  ELSE <<Head(ms)>> \o InsertMember(Tail(ms), m)

RECURSIVE SortKeys(_)
RECURSIVE SortMembers(_, _)
SortKeys(x) ==
  CASE x.t = "arr" -> JArr([i \in 1..Len(x.v) |-> SortKeys(x.v[i])])
    [] x.t = "obj" -> JObj(SortMembers(x.v, <<>>))
    [] OTHER -> x

SortMembers(ms, acc) ==
  IF ms = <<>> THEN acc
  ELSE SortMembers(Tail(ms), InsertMember(acc, <<Head(ms)[1], SortKeys(Head(ms)[2])>>))

\* JSON.stringify of the target: the members of a dictionary in key order.
GdStringify(x) == JSONstringify(SortKeys(x))

\* Marshalls.base64_to_utf8: strict; the empty text where the input is no base64.
Base64DecodeStrict(s) ==
  LET n == Len(s)
      pad == IF n >= 1 /\ s[n] = "=" THEN (IF n >= 2 /\ s[n - 1] = "=" THEN 2 ELSE 1) ELSE 0
      body == SubSeq(s, 1, n - pad)
  IN  IF n % 4 # 0 \/ \E i \in 1..Len(body) : body[i] \notin B64Set THEN <<>>
      ELSE Base64Bytes([i \in 1..Len(body) |-> Unbase64(body[i])])

MCPProtocol_encode(msg) ==
  LET json == GdStringify(msg)
      b64 == Base64Encode(Utf8Encode(json))
  IN  PREFIX \o b64 \o SUFFIX

\* The dictionary, or JNull where the source returns null.
MCPProtocol_decode(line) ==
  IF ~startsWith(line, PREFIX) \/ ~endsWith(line, SUFFIX) THEN JNull
  ELSE LET b64 == slice(line, Len(PREFIX), Len(line) - Len(SUFFIX))
           json == Utf8Decode(Base64DecodeStrict(b64))
       IN  IF json = <<>> THEN JNull
           ELSE LET parsed == JSONparse(json)
                IN  IF ~parsed.ok \/ parsed.v.t # "obj" THEN JNull
                    ELSE IF ~HasKey(parsed.v, K_id) \/ ~HasKey(parsed.v, K_type)
                            \/ ~HasKey(parsed.v, K_command)
                         THEN JNull
                    ELSE parsed.v

create_response(request_id, command, payload) ==
  MsgOf(request_id, T_response, command, << <<K_payload, payload>> >>)

\* Mutant of create_error_response: the error comes with a payload.
create_error_responseWithPayload(request_id, command, code, message) ==
  MsgOf(request_id, T_response, command,
        << <<K_payload, JObj(<<>>)>>, <<K_error, ErrorOf(code, message)>> >>)

create_error_response(request_id, command, code, message) ==
  MsgOf(request_id, T_response, command,
        << <<K_payload, JNull>>, <<K_error, ErrorOf(code, message)>> >>)

-----------------------------------------------------------------------------
(* Delivery pump (mcp_bridge_autoload.gd) and dispatcher (mcp_commands.gd)  *)

MaxRequests == 2

C_screenshot == <<"s", "c", "r", "e", "e", "n", "s", "h", "o", "t">>
C_get_scene_tree == <<"g", "e", "t", "_", "s", "c", "e", "n", "e", "_", "t", "r", "e", "e">>
C_nope == <<"n", "o", "p", "e">>
PumpCommands == {C_handshake, C_screenshot, C_get_scene_tree, C_nope}

VERSION == V_1_0
CAPABILITIES ==
  JArr(<<JStr(C_screenshot), JStr(Cap_nodes), JStr(<<"i", "n", "p", "u", "t">>), JStr(<<"s", "c", "e", "n", "e">>)>>)

K_format == <<"f", "o", "r", "m", "a", "t">>
K_root == <<"r", "o", "o", "t">>
E_UNKNOWN_COMMAND == <<"U", "N", "K", "N", "O", "W", "N", "_", "C", "O", "M", "M", "A", "N", "D">>
E_NO_SCENE == <<"N", "O", "_", "S", "C", "E", "N", "E">>
E_NO_VIEWPORT == <<"N", "O", "_", "V", "I", "E", "W", "P", "O", "R", "T">>
E_CAPTURE_FAILED == <<"C", "A", "P", "T", "U", "R", "E", "_", "F", "A", "I", "L", "E", "D">>

\* Dictionary.get(key, default)
GetOr(d, k, default) == IF HasKey(d, k) THEN Get(d, k) ELSE default

\* The root of the running scene as _serialize_node_tree gives it: a node
\* without children and without exported properties.
HostRootNode ==
  JObj(<< <<<<"n", "a", "m", "e">>, JStr(<<"M", "a", "i", "n">>)>>, <<K_type, JStr(<<"N", "o", "d", "e", "2", "D">>)>>,
          <<<<"p", "a", "t", "h">>, JStr(<<"/", "r", "o", "o", "t", "/", "M", "a", "i", "n">>)>>, <<<<"p", "r", "o", "p", "e", "r", "t", "i", "e", "s">>, JObj(<<>>)>> >>)

\* What the render of a frame leaves for the screenshot handler.
HostCaptures == {"image", "no_image", "no_viewport"}

ScreenshotData ==
  JObj(<< <<<<"d", "a", "t", "a">>, JStr(<<"A", "A", "=", "=">>)>>, <<<<"w", "i", "d", "t", "h">>, JNum(1)>>, <<<<"h", "e", "i", "g", "h", "t">>, JNum(1)>> >>)

_handle_handshake(request_id) ==
  create_response(request_id, C_handshake,
                  JObj(<< <<K_version, JStr(VERSION)>>, <<K_capabilities, CAPABILITIES>> >>))

_handle_get_scene_tree(request_id, scene) ==
  IF scene = "none"
  THEN create_error_response(request_id, C_get_scene_tree, E_NO_SCENE, <<"N", "o", " ", "s", "c", "e", "n", "e", " ", "l", "o", "a", "d", "e", "d">>)
  ELSE create_response(request_id, C_get_scene_tree, JObj(<< <<K_root, HostRootNode>> >>))

\* _handle_screenshot after its await, with what the host has rendered.
ScreenshotResume(request_id, capture) ==
  CASE capture = "no_viewport" ->
         create_error_response(request_id, C_screenshot, E_NO_VIEWPORT,
                               <<"C", "o", "u", "l", "d", " ", "n", "o", "t", " ", "f", "i", "n", "d", " ", "m", "a", "i", "n", " ", "v", "i", "e", "w", "p", "o", "r", "t">>)
    [] capture = "no_image" ->
         create_error_response(request_id, C_screenshot, E_CAPTURE_FAILED,
                               <<"F", "a", "i", "l", "e", "d", " ", "t", "o", " ", "c", "a", "p", "t", "u", "r", "e", " ", "v", "i", "e", "w", "p", "o", "r", "t", " ", "i", "m", "a", "g", "e">>)
    [] OTHER -> create_response(request_id, C_screenshot, ScreenshotData)

\* Mutant of execute: the screenshot handler samples the view at once.
executeNoAwait(msg, scene) ==
  LET command == GetOr(msg, K_command, JStr(<<>>)).v
      request_id == GetOr(msg, K_id, JStr(<<>>)).v
  IN  CASE command = C_handshake ->
             [kind |-> "dictionary", v |-> _handle_handshake(request_id)]
        [] command = C_screenshot ->
             [kind |-> "dictionary", v |-> ScreenshotResume(request_id, "image")]
        [] command = C_get_scene_tree ->
             [kind |-> "dictionary", v |-> _handle_get_scene_tree(request_id, scene)]
        [] OTHER ->
             [kind |-> "dictionary",
              v |-> create_error_response(request_id, command, E_UNKNOWN_COMMAND,
                                          <<"U", "n", "k", "n", "o", "w", "n", " ", "c", "o", "m", "m", "a", "n", "d", ":", " ">> \o command)]

\* execute(msg) up to its return or its first suspension.  A call that
\* suspends gives its caller the state of the coroutine, not a dictionary.
execute(msg, scene) ==
  LET command == GetOr(msg, K_command, JStr(<<>>)).v
      request_id == GetOr(msg, K_id, JStr(<<>>)).v
      payload == GetOr(msg, K_payload, JObj(<<>>))
  IN  CASE command = C_handshake ->
             [kind |-> "dictionary", v |-> _handle_handshake(request_id)]
        [] command = C_screenshot ->
             [kind |-> "coroutine",
              v |-> JObj(<< <<K_id, JStr(request_id)>>,
                            <<K_format, IF payload.t = "obj"
                                        THEN GetOr(payload, K_format, JStr(<<"p", "n", "g">>))
                                        ELSE JStr(<<"p", "n", "g">>)>> >>)]
        [] command = C_get_scene_tree ->
             [kind |-> "dictionary", v |-> _handle_get_scene_tree(request_id, scene)]
        [] OTHER ->
             [kind |-> "dictionary",
              v |-> create_error_response(request_id, command, E_UNKNOWN_COMMAND,
                                          <<"U", "n", "k", "n", "o", "w", "n", " ", "c", "o", "m", "m", "a", "n", "d", ":", " ">> \o command)]

\* String.strip_edges
RECURSIVE StripLeft(_)
StripLeft(s) == IF s # <<>> /\ IsWs(Head(s)) THEN StripLeft(Tail(s)) ELSE s
RECURSIVE StripRight(_)
StripRight(s) == IF s # <<>> /\ IsWs(s[Len(s)]) THEN StripRight(SubSeq(s, 1, Len(s) - 1)) ELSE s
strip_edges(s) == StripRight(StripLeft(s))

\* The lines the controller can write: the request of call k for a command,
\* as sendRequest writes it, and a line that is no frame.
PumpLine ==
  [k \in 1..MaxRequests, c \in PumpCommands |->
     Line(encodeMessage(MsgOf(IdText(k), T_request, c, << <<K_payload, JObj(<<>>)>> >>)))]
\* A well-framed line whose message is of another kind than request.
OtherKinds == {T_response, T_event}
KindLine ==
  [k \in 1..MaxRequests, t \in OtherKinds |->
     Line(encodeMessage(MsgOf(IdText(k), t, C_handshake, << <<K_payload, JObj(<<>>)>> >>)))]
JunkLine == <<"h", "e", "l", "l", "o">> \o <<"\n">>
ReadyText == <<"[", "M", "C", "P", " ", "B", "r", "i", "d", "g", "e", "]", " ", "I", "n", "i", "t", "i", "a", "l", "i", "z", "e", "d", " ", "a", "n", "d", " ", "r", "e", "a", "d", "y">>

\* Mutant of _should_activate: the launch flag is not looked at.
_should_activateDebugOnly(l) == l.debug

_should_activate(l) == l.debug /\ l.flag

PumpInit ==
  /\ launch \in [debug : BOOLEAN, flag : BOOLEAN]
  /\ appended = <<>>
  /\ activate = _should_activate(launch)
  /\ hostScene \in {"none", "Main"}
  /\ running = FALSE
  /\ message_queue = <<>>
  /\ queue_mutex = "none"
  /\ stdinPipe = <<>>
  /\ stdoutLines = <<>>
  /\ readerPc = "off"
  /\ readerMsg = JNull
  /\ mainPc = "boot"
  /\ drained = <<>>
  /\ awaiting = <<>>
  /\ returnedToNobody = <<>>
  /\ dispatched = <<>>
  /\ written = 0

\* The pump before the target is started, for the other specifications.
PumpParked ==
  /\ launch = [debug |-> FALSE, flag |-> FALSE]
  /\ appended = <<>>
  /\ activate = FALSE
  /\ hostScene = "none"
  /\ running = FALSE
  /\ message_queue = <<>>
  /\ queue_mutex = "none"
  /\ stdinPipe = <<>>
  /\ stdoutLines = <<>>
  /\ readerPc = "off"
  /\ readerMsg = JNull
  /\ mainPc = "boot"
  /\ drained = <<>>
  /\ awaiting = <<>>
  /\ returnedToNobody = <<>>
  /\ dispatched = <<>>
  /\ written = 0

\* The controller writes a line to the input stream of the target.
ControllerWrites ==
  /\ written < MaxRequests
  /\ \E line \in {PumpLine[written + 1, c] : c \in PumpCommands}
                   \cup {KindLine[written + 1, t] : t \in OtherKinds} \cup {JunkLine} :
       stdinPipe' = Append(stdinPipe, line)
  /\ written' = written + 1
  /\ UNCHANGED <<launch, appended, activate, hostScene, running, message_queue, queue_mutex, stdoutLines,
                 readerPc, readerMsg, mainPc, drained, awaiting, returnedToNobody, dispatched>>
  /\ UNCHANGED <<cvars, clvars, dvars, tvars>>

\* _ready()
Ready ==
  /\ mainPc = "boot"
  /\ mainPc' = "idle"
  /\ IF ~activate
     THEN UNCHANGED <<running, queue_mutex, readerPc, stdoutLines>>
     ELSE /\ queue_mutex' = "free"
          /\ running' = TRUE
          /\ readerPc' = "check"
          /\ stdoutLines' = Append(stdoutLines, ReadyText)
  /\ UNCHANGED <<launch, appended, activate, hostScene, message_queue, stdinPipe, readerMsg, drained, awaiting,
                 returnedToNobody, dispatched, written>>
  /\ UNCHANGED <<cvars, clvars, dvars, tvars>>

\* Mutant of StdinLoopCheck: the loop does not look at the flag.
StdinLoopForever ==
  /\ readerPc = "check"
  /\ readerPc' = "read"
  /\ UNCHANGED <<launch, appended, activate, hostScene, running, message_queue, queue_mutex, stdinPipe,
                 stdoutLines, readerMsg, mainPc, drained, awaiting, returnedToNobody,
                 dispatched, written>>
  /\ UNCHANGED <<cvars, clvars, dvars, tvars>>

\* _stdin_loop: the test of the while loop.
StdinLoopCheck ==
  /\ readerPc = "check"
  /\ readerPc' = IF running THEN "read" ELSE "done"
  /\ UNCHANGED <<launch, appended, activate, hostScene, running, message_queue, queue_mutex, stdinPipe,
                 stdoutLines, readerMsg, mainPc, drained, awaiting, returnedToNobody,
                 dispatched, written>>
  /\ UNCHANGED <<cvars, clvars, dvars, tvars>>

\* _stdin_loop: a line is read (the read blocks until there is one), stripped
\* and decoded.
StdinLoopRead ==
  /\ readerPc = "read"
  /\ stdinPipe # <<>>
  /\ stdinPipe' = Tail(stdinPipe)
  /\ LET line == strip_edges(Head(stdinPipe))
         msg == IF Len(line) > 0 THEN MCPProtocol_decode(line) ELSE JNull
     IN  IF msg # JNull
         THEN readerMsg' = msg /\ readerPc' = "lock"
         ELSE readerMsg' = JNull /\ readerPc' = "check"
  /\ UNCHANGED <<launch, appended, activate, hostScene, running, message_queue, queue_mutex, stdoutLines, mainPc,
                 drained, awaiting, returnedToNobody, dispatched, written>>
  /\ UNCHANGED <<cvars, clvars, dvars, tvars>>

\* Mutant of QueueMessageLock: the reader does not wait for the mutex.
QueueMessageNoLock ==
  /\ readerPc = "lock"
  /\ queue_mutex' = queue_mutex
  /\ readerPc' = "append"
  /\ UNCHANGED <<launch, appended, activate, hostScene, running, message_queue, stdinPipe,
                 stdoutLines, readerMsg, mainPc, drained, awaiting, returnedToNobody,
                 dispatched, written>>
  /\ UNCHANGED <<cvars, clvars, dvars, tvars>>

\* _queue_message: lock, append, unlock.
QueueMessageLock ==
  /\ readerPc = "lock"
  /\ queue_mutex = "free"
  /\ queue_mutex' = "reader"
  /\ readerPc' = "append"
  /\ UNCHANGED <<launch, appended, activate, hostScene, running, message_queue, stdinPipe, stdoutLines, readerMsg,
                 mainPc, drained, awaiting, returnedToNobody, dispatched, written>>
  /\ UNCHANGED <<cvars, clvars, dvars, tvars>>

\* Mutant of QueueMessageAppend: the message is put at the front of the queue.
QueueMessagePushFront ==
  /\ readerPc = "append"
  /\ message_queue' = <<readerMsg>> \o message_queue
  /\ appended' = Append(appended, readerMsg)
  /\ readerPc' = "unlock"
  /\ UNCHANGED <<launch, activate, hostScene, running, queue_mutex, stdinPipe, stdoutLines, readerMsg,
                 mainPc, drained, awaiting, returnedToNobody, dispatched, written>>
  /\ UNCHANGED <<cvars, clvars, dvars, tvars>>

QueueMessageAppend ==
  /\ readerPc = "append"
  /\ message_queue' = Append(message_queue, readerMsg)
  /\ appended' = Append(appended, readerMsg)
  /\ readerPc' = "unlock"
  /\ UNCHANGED <<launch, activate, hostScene, running, queue_mutex, stdinPipe, stdoutLines, readerMsg,
                 mainPc, drained, awaiting, returnedToNobody, dispatched, written>>
  /\ UNCHANGED <<cvars, clvars, dvars, tvars>>

QueueMessageUnlock ==
  /\ readerPc = "unlock"
  /\ queue_mutex' = "free"
  /\ readerMsg' = JNull
  /\ readerPc' = "check"
  /\ UNCHANGED <<launch, appended, activate, hostScene, running, message_queue, stdinPipe, stdoutLines, mainPc,
                 drained, awaiting, returnedToNobody, dispatched, written>>
  /\ UNCHANGED <<cvars, clvars, dvars, tvars>>

\* Mutant of ProcessLock: the main thread does not wait for the mutex.
ProcessLockNoWait ==
  /\ mainPc = "idle"
  /\ running
  /\ queue_mutex' = "main"
  /\ mainPc' = "duplicate"
  /\ UNCHANGED <<launch, appended, activate, hostScene, running, message_queue, stdinPipe, stdoutLines, readerPc,
                 readerMsg, drained, awaiting, returnedToNobody, dispatched, written>>
  /\ UNCHANGED <<cvars, clvars, dvars, tvars>>

\* _process: a frame begins; the queue is locked.
ProcessLock ==
  /\ mainPc = "idle"
  /\ running
  /\ queue_mutex = "free"
  /\ queue_mutex' = "main"
  /\ mainPc' = "duplicate"
  /\ UNCHANGED <<launch, appended, activate, hostScene, running, message_queue, stdinPipe, stdoutLines, readerPc,
                 readerMsg, drained, awaiting, returnedToNobody, dispatched, written>>
  /\ UNCHANGED <<cvars, clvars, dvars, tvars>>

ProcessDuplicate ==
  /\ mainPc = "duplicate"
  /\ drained' = message_queue
  /\ mainPc' = "clear"
  /\ UNCHANGED <<launch, appended, activate, hostScene, running, message_queue, queue_mutex, stdinPipe,
                 stdoutLines, readerPc, readerMsg, awaiting, returnedToNobody, dispatched,
                 written>>
  /\ UNCHANGED <<cvars, clvars, dvars, tvars>>

ProcessClear ==
  /\ mainPc = "clear"
  /\ message_queue' = <<>>
  /\ mainPc' = "unlock"
  /\ UNCHANGED <<launch, appended, activate, hostScene, running, queue_mutex, stdinPipe, stdoutLines, readerPc,
                 readerMsg, drained, awaiting, returnedToNobody, dispatched, written>>
  /\ UNCHANGED <<cvars, clvars, dvars, tvars>>

ProcessUnlock ==
  /\ mainPc = "unlock"
  /\ queue_mutex' = "free"
  /\ mainPc' = IF drained = <<>> THEN "idle" ELSE "each"
  /\ UNCHANGED <<launch, appended, activate, hostScene, running, message_queue, stdinPipe, stdoutLines, readerPc,
                 readerMsg, drained, awaiting, returnedToNobody, dispatched, written>>
  /\ UNCHANGED <<cvars, clvars, dvars, tvars>>

\* Mutant of ProcessMessage: an error response ends the drain of the batch.
ProcessMessageStopsOnError ==
  /\ mainPc = "each"
  /\ LET msg == Head(drained)
         response == execute(msg, hostScene)
     IN  /\ dispatched' = Append(dispatched, msg)
         /\ IF response.kind = "dictionary"
            THEN /\ stdoutLines' = Append(stdoutLines, MCPProtocol_encode(response.v))
                 /\ UNCHANGED awaiting
            ELSE /\ awaiting' = Append(awaiting, response.v)
                 /\ UNCHANGED stdoutLines
         /\ drained' = IF response.kind = "dictionary" /\ HasKey(response.v, K_error)
                       THEN <<>> ELSE Tail(drained)
  /\ mainPc' = IF drained' = <<>> THEN "idle" ELSE "each"
  /\ UNCHANGED <<launch, appended, activate, hostScene, running, message_queue, queue_mutex, stdinPipe, readerPc,
                 readerMsg, returnedToNobody, written>>
  /\ UNCHANGED <<cvars, clvars, dvars, tvars>>

\* _process_message for the next drained message, with _send_response.
ProcessMessage ==
  /\ mainPc = "each"
  /\ LET msg == Head(drained)
         response == execute(msg, hostScene)
     IN  /\ dispatched' = Append(dispatched, msg)
         /\ IF response.kind = "dictionary"
            THEN /\ stdoutLines' = Append(stdoutLines, MCPProtocol_encode(response.v))
                 /\ UNCHANGED awaiting
            ELSE /\ awaiting' = Append(awaiting, response.v)
                 /\ UNCHANGED stdoutLines
  /\ drained' = Tail(drained)
  /\ mainPc' = IF Tail(drained) = <<>> THEN "idle" ELSE "each"
  /\ UNCHANGED <<launch, appended, activate, hostScene, running, message_queue, queue_mutex, stdinPipe, readerPc,
                 readerMsg, returnedToNobody, written>>
  /\ UNCHANGED <<cvars, clvars, dvars, tvars>>

\* The frame has been drawn: the handlers waiting for it run to their return.
\* What they return goes to the caller of the coroutine; there is none.
FramePostDraw ==
  /\ mainPc = "idle"
  /\ awaiting # <<>>
  /\ \E capture \in HostCaptures :
       returnedToNobody' =
         returnedToNobody
           \o [i \in 1..Len(awaiting) |-> ScreenshotResume(Get(awaiting[i], K_id).v, capture)]
  /\ awaiting' = <<>>
  /\ UNCHANGED <<launch, appended, activate, hostScene, running, message_queue, queue_mutex, stdinPipe,
                 stdoutLines, readerPc, readerMsg, mainPc, drained, dispatched, written>>
  /\ UNCHANGED <<cvars, clvars, dvars, tvars>>

\* _exit_tree: the flag is cleared and the main thread waits for the reader.
ExitTree ==
  /\ mainPc = "idle"
  /\ running' = FALSE
  /\ mainPc' = IF readerPc = "off" THEN "gone" ELSE "join"
  /\ UNCHANGED <<launch, appended, activate, hostScene, message_queue, queue_mutex, stdinPipe, stdoutLines,
                 readerPc, readerMsg, drained, awaiting, returnedToNobody, dispatched, written>>
  /\ UNCHANGED <<cvars, clvars, dvars, tvars>>

\* wait_to_finish returns once the reader has left its loop.
ThreadJoined ==
  /\ mainPc = "join"
  /\ readerPc = "done"
  /\ mainPc' = "gone"
  /\ UNCHANGED <<launch, appended, activate, hostScene, running, message_queue, queue_mutex, stdinPipe,
                 stdoutLines, readerPc, readerMsg, drained, awaiting, returnedToNobody,
                 dispatched, written>>
  /\ UNCHANGED <<cvars, clvars, dvars, tvars>>

PumpNext ==
  \/ ControllerWrites \/ Ready
  \/ StdinLoopCheck \/ StdinLoopRead
  \/ QueueMessageLock \/ QueueMessageAppend \/ QueueMessageUnlock
  \/ ProcessLock \/ ProcessDuplicate \/ ProcessClear \/ ProcessUnlock \/ ProcessMessage
  \/ FramePostDraw \/ ExitTree \/ ThreadJoined

-----------------------------------------------------------------------------
(* Command dispatcher on a host (mcp_commands.gd): the scene tree, the      *)
(* input system and the resources the handlers work on.                     *)

MaxDispatches == 2

C_set_property == <<"s", "e", "t", "_", "p", "r", "o", "p", "e", "r", "t", "y">>
C_call_method == <<"c", "a", "l", "l", "_", "m", "e", "t", "h", "o", "d">>
C_change_scene == <<"c", "h", "a", "n", "g", "e", "_", "s", "c", "e", "n", "e">>
C_input_action == <<"i", "n", "p", "u", "t", "_", "a", "c", "t", "i", "o", "n">>
C_input_key == <<"i", "n", "p", "u", "t", "_", "k", "e", "y">>
C_input_mouse_button == <<"i", "n", "p", "u", "t", "_", "m", "o", "u", "s", "e", "_", "b", "u", "t", "t", "o", "n">>
C_input_mouse_motion == <<"i", "n", "p", "u", "t", "_", "m", "o", "u", "s", "e", "_", "m", "o", "t", "i", "o", "n">>

K_path == <<"p", "a", "t", "h">>
K_property == <<"p", "r", "o", "p", "e", "r", "t", "y">>
K_value == <<"v", "a", "l", "u", "e">>
K_method == <<"m", "e", "t", "h", "o", "d">>
K_args == <<"a", "r", "g", "s">>
K_scenePath == <<"s", "c", "e", "n", "e", "P", "a", "t", "h">>
K_action == <<"a", "c", "t", "i", "o", "n">>
K_pressed == <<"p", "r", "e", "s", "s", "e", "d">>
K_strength == <<"s", "t", "r", "e", "n", "g", "t", "h">>
K_keycode == <<"k", "e", "y", "c", "o", "d", "e">>
K_button == <<"b", "u", "t", "t", "o", "n">>
K_position == <<"p", "o", "s", "i", "t", "i", "o", "n">>
K_relative == <<"r", "e", "l", "a", "t", "i", "v", "e">>
K_x == <<"x">>
K_y == <<"y">>
K_success == <<"s", "u", "c", "c", "e", "s", "s">>
K_result == <<"r", "e", "s", "u", "l", "t">>
K_node == <<"n", "o", "d", "e">>
K_name == <<"n", "a", "m", "e">>
K_properties == <<"p", "r", "o", "p", "e", "r", "t", "i", "e", "s">>
K_children == <<"c", "h", "i", "l", "d", "r", "e", "n">>
Modifiers == {<<"s", "h", "i", "f", "t">>, <<"c", "t", "r", "l">>, <<"a", "l", "t">>, <<"m", "e", "t", "a">>}

E_INVALID_PARAMS == <<"I", "N", "V", "A", "L", "I", "D", "_", "P", "A", "R", "A", "M", "S">>
E_NODE_NOT_FOUND == <<"N", "O", "D", "E", "_", "N", "O", "T", "_", "F", "O", "U", "N", "D">>
E_PROPERTY_NOT_FOUND == <<"P", "R", "O", "P", "E", "R", "T", "Y", "_", "N", "O", "T", "_", "F", "O", "U", "N", "D">>
E_METHOD_NOT_FOUND == <<"M", "E", "T", "H", "O", "D", "_", "N", "O", "T", "_", "F", "O", "U", "N", "D">>
E_SCENE_NOT_FOUND == <<"S", "C", "E", "N", "E", "_", "N", "O", "T", "_", "F", "O", "U", "N", "D">>
E_CHANGE_FAILED == <<"C", "H", "A", "N", "G", "E", "_", "F", "A", "I", "L", "E", "D">>
E_ACTION_NOT_FOUND == <<"A", "C", "T", "I", "O", "N", "_", "N", "O", "T", "_", "F", "O", "U", "N", "D">>

\* The nodes of the running project: the root window, the autoload of the
\* bridge below it and, while a scene is current, the scene with its child.
\* "null" stands for the null reference.
Nodes == {"root", "MCPBridge", "Main", "Player"}

NodeName ==
  [n \in Nodes |->
     CASE n = "root" -> <<"r", "o", "o", "t">>
       [] n = "MCPBridge" -> <<"M", "C", "P", "B", "r", "i", "d", "g", "e">>
       [] n = "Main" -> <<"M", "a", "i", "n">>
       [] OTHER -> <<"P", "l", "a", "y", "e", "r">>]

NodeClass ==
  [n \in Nodes |->
     CASE n = "root" -> <<"W", "i", "n", "d", "o", "w">>
       [] n = "MCPBridge" -> <<"N", "o", "d", "e">>
       [] n = "Main" -> <<"N", "o", "d", "e", "2", "D">>
       [] OTHER -> <<"S", "p", "r", "i", "t", "e", "2", "D">>]

\* Node.get_children, in tree order.
Children(h, n) ==
  CASE n = "root" -> IF h.scene = "none" THEN <<"MCPBridge">> ELSE <<"MCPBridge", "Main">>
    [] n = "Main" -> <<"Player">>
    [] OTHER -> <<>>

Parent(n) ==
  CASE n = "root" -> "null"
    [] n = "Player" -> "Main"
    [] OTHER -> "root"

\* Node.get_path
RECURSIVE NodePathOf(_)
NodePathOf(n) ==
  IF n = "root" THEN <<"/">> \o NodeName[n]
  ELSE NodePathOf(Parent(n)) \o <<"/">> \o NodeName[n]

\* The values a property can hold: the shapes JSON carries and shapes only
\* the host has.
Vector2(x, y) == [t |-> "vector2", v |-> <<x, y>>]
TextureValue == [t |-> "object", v |-> 0]
TransformValue == [t |-> "transform2d", v |-> 0]

\* A property as get_property_list and get give it: its name, whether its
\* usage has PROPERTY_USAGE_EDITOR, and its value.
Prop(name, editor, value) == [name |-> name, editor |-> editor, value |-> value]

PlayerProps ==
  << Prop(<<"v", "i", "s", "i", "b", "l", "e">>, TRUE, JTrue),
     Prop(<<"p", "o", "s", "i", "t", "i", "o", "n">>, TRUE, Vector2(0, 0)),
     Prop(<<"t", "e", "x", "t", "u", "r", "e">>, TRUE, TextureValue),
     Prop(<<"t", "r", "a", "n", "s", "f", "o", "r", "m">>, FALSE, TransformValue),
     Prop(<<"h", "e", "a", "l", "t", "h">>, TRUE, JNum(3)),
     Prop(<<"s", "e", "c", "r", "e", "t">>, FALSE, JNum(7)) >>

\* The properties of the nodes when a scene has just been loaded.
FreshProps ==
  [n \in Nodes |-> IF n = "Player" THEN PlayerProps
                   ELSE << Prop(<<"p", "r", "o", "c", "e", "s", "s", "_", "m", "o", "d", "e">>, TRUE, JNum(0)) >>]

\* The methods of the nodes that requests name.
M_reset == <<"r", "e", "s", "e", "t">>
HasMethod(n, method) == n = "Player" /\ method = M_reset

\* The actions of the project's input map, the resources of the project,
\* and those of them that are scenes.
A_jump == <<"j", "u", "m", "p">>
InputMapActions == {A_jump}
R_main == <<"r", "e", "s", ":", "/", "/", "m", "a", "i", "n", ".", "t", "s", "c", "n">>
R_icon == <<"r", "e", "s", ":", "/", "/", "i", "c", "o", "n", ".", "s", "v", "g">>
R_none == <<"r", "e", "s", ":", "/", "/", "n", "o", "n", "e", ".", "t", "s", "c", "n">>
ExistingResources == {R_main, R_icon}
PackedScenes == {R_main}

\* An input event given to the input system, or an action pressed or
\* released.  Fields a kind does not have are zero or empty.
InputEvent(kind, name, code, pressed, strength, vec, pos, mods) ==
  [kind |-> kind, name |-> name, code |-> code, pressed |-> pressed,
   strength |-> strength, vec |-> vec, pos |-> pos, mods |-> mods]

\* A host: the current scene ("none" while there is none), the scene that
\* will be current at the end of the frame, the properties of the nodes, and
\* what has been done to the host: methods called, events injected, scene
\* replacements asked for.
HostOf(scene) ==
  [scene |-> scene, pending |-> "none", props |-> FreshProps,
   calls |-> <<>>, events |-> <<>>, changes |-> <<>>]

-----------------------------------------------------------------------------
(* NodePath and node lookup                                                 *)

\* The names of a path: its parts between the slashes.
RECURSIVE PathNames(_, _, _)
PathNames(p, acc, cur) ==
  IF p = <<>> THEN (IF cur = <<>> THEN acc ELSE Append(acc, cur))
  ELSE IF Head(p) = "/" THEN PathNames(Tail(p), IF cur = <<>> THEN acc ELSE Append(acc, cur), <<>>)
  ELSE PathNames(Tail(p), acc, Append(cur, Head(p)))

IsAbsolute(p) == p # <<>> /\ p[1] = "/"

ChildNamed(h, n, name) ==
  LET cs == Children(h, n)
  IN  IF \E i \in 1..Len(cs) : NodeName[cs[i]] = name
      THEN cs[CHOOSE i \in 1..Len(cs) : NodeName[cs[i]] = name]
      ELSE "null"

\* The walk of Node.get_node_or_null along the names of a path.  An absolute
\* path starts at no node: its first name has to be the name of the root.
RECURSIVE WalkNames(_, _, _)
WalkNames(h, names, current) ==
  IF names = <<>> THEN current
  ELSE LET name == Head(names)
           next == CASE name = <<".">> -> current
                     [] name = <<".", ".">> -> IF current = "null" THEN "null" ELSE Parent(current)
                     [] current = "null" -> IF name = NodeName["root"] THEN "root" ELSE "null"
                     [] OTHER -> ChildNamed(h, current, name)
       IN  IF next = "null" THEN "null" ELSE WalkNames(h, Tail(names), next)

\* Node.get_node_or_null(path) on a node of the tree.
get_node_or_null(h, n, path) ==
  IF path = <<>> THEN "null"
  ELSE WalkNames(h, PathNames(path, <<>>, <<>>), IF IsAbsolute(path) THEN "null" ELSE n)

RootMarker == <<"/", "r", "o", "o", "t">>

_get_node_by_path(h, path) ==
  IF startsWith(path, RootMarker)
  THEN get_node_or_null(h, "root", SubSeq(path, Len(RootMarker) + 1, Len(path)))
  ELSE IF h.scene # "none" THEN get_node_or_null(h, h.scene, path)
  ELSE "null"

-----------------------------------------------------------------------------
(* Node serialization                                                       *)

\* typeof(value)
typeof(value) ==
  CASE value.t = "null" -> "TYPE_NIL"
    [] value.t = "bool" -> "TYPE_BOOL"
    [] value.t = "num" -> "TYPE_FLOAT"
    [] value.t = "str" -> "TYPE_STRING"
    [] value.t = "arr" -> "TYPE_ARRAY"
    [] value.t = "obj" -> "TYPE_DICTIONARY"
    [] value.t = "vector2" -> "TYPE_VECTOR2"
    [] value.t = "transform2d" -> "TYPE_TRANSFORM2D"
    [] OTHER -> "TYPE_OBJECT"

SerializableTypes ==
  {"TYPE_NIL", "TYPE_BOOL", "TYPE_INT", "TYPE_FLOAT", "TYPE_STRING",
   "TYPE_VECTOR2", "TYPE_VECTOR2I", "TYPE_VECTOR3", "TYPE_VECTOR3I",
   "TYPE_COLOR", "TYPE_RECT2", "TYPE_RECT2I",
   "TYPE_ARRAY", "TYPE_DICTIONARY",
   "TYPE_PACKED_BYTE_ARRAY", "TYPE_PACKED_INT32_ARRAY", "TYPE_PACKED_INT64_ARRAY",
   "TYPE_PACKED_FLOAT32_ARRAY", "TYPE_PACKED_FLOAT64_ARRAY",
   "TYPE_PACKED_STRING_ARRAY", "TYPE_PACKED_VECTOR2_ARRAY", "TYPE_PACKED_VECTOR3_ARRAY"}

\* Mutant of _is_serializable: every value is let through.
_is_serializableAny(value) == TRUE

_is_serializable(value) == typeof(value) \in SerializableTypes

\* _get_exported_properties: the loop over the property list.
RECURSIVE ExportedFrom(_, _)
ExportedFrom(prop_list, props) ==
  IF prop_list = <<>> THEN props
  ELSE ExportedFrom(Tail(prop_list),
                    IF Head(prop_list).editor /\ _is_serializable(Head(prop_list).value)
                    THEN SetKey(props, Head(prop_list).name, Head(prop_list).value)
                    ELSE props)

_get_exported_properties(h, n) == JObj(ExportedFrom(h.props[n], <<>>))

RECURSIVE _serialize_node(_, _, _)
RECURSIVE SerializeChildren(_, _)
\* Mutant of _serialize_node: the children are listed whether asked for or
\* not.
_serialize_nodeWithChildren(h, n, include_children) ==
  JObj(<< <<K_name, JStr(NodeName[n])>>,
          <<K_type, JStr(NodeClass[n])>>,
          <<K_path, JStr(NodePathOf(n))>>,
          <<K_properties, _get_exported_properties(h, n)>> >>
       \o IF Len(Children(h, n)) > 0
          THEN << <<K_children, JArr(SerializeChildren(h, Children(h, n)))>> >>
          ELSE <<>>)

_serialize_node(h, n, include_children) ==
  JObj(<< <<K_name, JStr(NodeName[n])>>,
          <<K_type, JStr(NodeClass[n])>>,
          <<K_path, JStr(NodePathOf(n))>>,
          <<K_properties, _get_exported_properties(h, n)>> >>
       \o IF include_children /\ Len(Children(h, n)) > 0
          THEN << <<K_children, JArr(SerializeChildren(h, Children(h, n)))>> >>
          ELSE <<>>)

SerializeChildren(h, cs) ==
  IF cs = <<>> THEN <<>>
  ELSE <<_serialize_node(h, Head(cs), TRUE)>> \o SerializeChildren(h, Tail(cs))

_serialize_node_tree(h, n) == _serialize_node(h, n, TRUE)

-----------------------------------------------------------------------------
(* The handlers.  A handler gives what it returns and the host it leaves:   *)
(* a dictionary, or nothing where the assignment of a value to a typed      *)
(* variable fails and the call is abandoned with a script error.            *)

Reply(v, h) == [resp |-> [kind |-> "dictionary", v |-> v], host |-> h]
ScriptError(h) == [resp |-> [kind |-> "error", v |-> JNull], host |-> h]

IsString(x) == x.t = "str"
IsNumber(x) == x.t = "num"
IsBool(x) == x.t = "bool"

\* Mutant of HandshakeOn: the handshake asks for a current scene.
HandshakeOnNeedsScene(request_id, h) ==
  IF h.scene = "none"
  THEN Reply(create_error_response(request_id, C_handshake, E_NO_SCENE, <<"N", "o", " ", "s", "c", "e", "n", "e", " ", "l", "o", "a", "d", "e", "d">>), h)
  ELSE Reply(_handle_handshake(request_id), h)

HandshakeOn(request_id, h) == Reply(_handle_handshake(request_id), h)

GetSceneTreeOn(request_id, h) ==
  IF h.scene = "none"
  THEN Reply(create_error_response(request_id, C_get_scene_tree, E_NO_SCENE, <<"N", "o", " ", "s", "c", "e", "n", "e", " ", "l", "o", "a", "d", "e", "d">>), h)
  ELSE Reply(create_response(request_id, C_get_scene_tree,
                             JObj(<< <<K_root, _serialize_node_tree(h, h.scene)>> >>)), h)

GetNodeFound(request_id, node_path, node, h) ==
  IF node = "null"
  THEN Reply(create_error_response(request_id, C_get_node, E_NODE_NOT_FOUND,
                                   <<"N", "o", "d", "e", " ", "n", "o", "t", " ", "f", "o", "u", "n", "d", ":", " ">> \o node_path), h)
  ELSE Reply(create_response(request_id, C_get_node,
                             JObj(<< <<K_node, _serialize_node(h, node, FALSE)>> >>)), h)

_handle_get_node(request_id, payload, h) ==
  IF payload.t # "obj" \/ ~HasKey(payload, K_path)
  THEN Reply(create_error_response(request_id, C_get_node, E_INVALID_PARAMS,
                                   <<"M", "i", "s", "s", "i", "n", "g", " ", "'", "p", "a", "t", "h", "'", " ", "p", "a", "r", "a", "m", "e", "t", "e", "r">>), h)
  ELSE IF ~IsString(Get(payload, K_path)) THEN ScriptError(h)
  ELSE GetNodeFound(request_id, Get(payload, K_path).v,
                    _get_node_by_path(h, Get(payload, K_path).v), h)

HasProperty(h, n, property) ==
  \E i \in 1..Len(h.props[n]) : h.props[n][i].name = property

\* Object.set
SetProperty(h, n, property, value) ==
  [h EXCEPT !.props[n] =
     [i \in 1..Len(h.props[n]) |->
        IF h.props[n][i].name = property
        THEN [h.props[n][i] EXCEPT !.value = value]
        ELSE h.props[n][i]]]

SetPropertyOn(request_id, node_path, property, value, node, h) ==
  IF node = "null"
  THEN Reply(create_error_response(request_id, C_set_property, E_NODE_NOT_FOUND,
                                   <<"N", "o", "d", "e", " ", "n", "o", "t", " ", "f", "o", "u", "n", "d", ":", " ">> \o node_path), h)
  ELSE IF ~HasProperty(h, node, property)
  THEN Reply(create_error_response(request_id, C_set_property, E_PROPERTY_NOT_FOUND,
                                   <<"P", "r", "o", "p", "e", "r", "t", "y", " ", "n", "o", "t", " ", "f", "o", "u", "n", "d", ":", " ">> \o property), h)
  ELSE Reply(create_response(request_id, C_set_property, JObj(<< <<K_success, JTrue>> >>)),
             SetProperty(h, node, property, value))

\* Mutant of SetPropertyChecked: the property is looked for before the node.
SetPropertyCheckedPropertyFirst(request_id, node_path, property, value, h) ==
  IF node_path = <<>> \/ property = <<>>
  THEN Reply(create_error_response(request_id, C_set_property, E_INVALID_PARAMS,
                                   <<"M", "i", "s", "s", "i", "n", "g", " ", "'", "p", "a", "t", "h", "'", " ", "o", "r", " ", "'", "p", "r", "o", "p", "e", "r", "t", "y", "'", " ", "p", "a", "r", "a", "m", "e", "t", "e", "r">>), h)
  ELSE IF \A n \in Nodes : ~HasProperty(h, n, property)
  THEN Reply(create_error_response(request_id, C_set_property, E_PROPERTY_NOT_FOUND,
                                   <<"P", "r", "o", "p", "e", "r", "t", "y", " ", "n", "o", "t", " ", "f", "o", "u", "n", "d", ":", " ">> \o property), h)
  ELSE SetPropertyOn(request_id, node_path, property, value,
                     _get_node_by_path(h, node_path), h)

SetPropertyChecked(request_id, node_path, property, value, h) ==
  IF node_path = <<>> \/ property = <<>>
  THEN Reply(create_error_response(request_id, C_set_property, E_INVALID_PARAMS,
                                   <<"M", "i", "s", "s", "i", "n", "g", " ", "'", "p", "a", "t", "h", "'", " ", "o", "r", " ", "'", "p", "r", "o", "p", "e", "r", "t", "y", "'", " ", "p", "a", "r", "a", "m", "e", "t", "e", "r">>), h)
  ELSE SetPropertyOn(request_id, node_path, property, value,
                     _get_node_by_path(h, node_path), h)

_handle_set_property(request_id, payload, h) ==
  IF payload.t # "obj"
  THEN Reply(create_error_response(request_id, C_set_property, E_INVALID_PARAMS,
                                   <<"I", "n", "v", "a", "l", "i", "d", " ", "p", "a", "y", "l", "o", "a", "d">>), h)
  ELSE IF ~IsString(GetOr(payload, K_path, JStr(<<>>)))
          \/ ~IsString(GetOr(payload, K_property, JStr(<<>>)))
  THEN ScriptError(h)
  ELSE SetPropertyChecked(request_id, GetOr(payload, K_path, JStr(<<>>)).v,
                          GetOr(payload, K_property, JStr(<<>>)).v,
                          GetOr(payload, K_value, JNull), h)

\* Object.callv: the method of the scene's child takes no argument, sets the
\* health to zero and returns nothing; a call with arguments fails and
\* returns null.
callv(h, n, method, args) ==
  IF args = <<>>
  THEN [result |-> JNull,
        host |-> [SetProperty(h, n, <<"h", "e", "a", "l", "t", "h">>, JNum(0))
                    EXCEPT !.calls = Append(h.calls, <<n, method>>)]]
  ELSE [result |-> JNull, host |-> h]

CallMethodReturn(request_id, called) ==
  Reply(create_response(request_id, C_call_method, JObj(<< <<K_result, called.result>> >>)),
        called.host)

CallMethodOn(request_id, node_path, method, args, node, h) ==
  IF node = "null"
  THEN Reply(create_error_response(request_id, C_call_method, E_NODE_NOT_FOUND,
                                   <<"N", "o", "d", "e", " ", "n", "o", "t", " ", "f", "o", "u", "n", "d", ":", " ">> \o node_path), h)
  ELSE IF ~HasMethod(node, method)
  THEN Reply(create_error_response(request_id, C_call_method, E_METHOD_NOT_FOUND,
                                   <<"M", "e", "t", "h", "o", "d", " ", "n", "o", "t", " ", "f", "o", "u", "n", "d", ":", " ">> \o method), h)
  ELSE CallMethodReturn(request_id, callv(h, node, method, args))

CallMethodChecked(request_id, node_path, method, args, h) ==
  IF node_path = <<>> \/ method = <<>>
  THEN Reply(create_error_response(request_id, C_call_method, E_INVALID_PARAMS,
                                   <<"M", "i", "s", "s", "i", "n", "g", " ", "'", "p", "a", "t", "h", "'", " ", "o", "r", " ", "'", "m", "e", "t", "h", "o", "d", "'", " ", "p", "a", "r", "a", "m", "e", "t", "e", "r">>), h)
  ELSE CallMethodOn(request_id, node_path, method, args, _get_node_by_path(h, node_path), h)

_handle_call_method(request_id, payload, h) ==
  IF payload.t # "obj"
  THEN Reply(create_error_response(request_id, C_call_method, E_INVALID_PARAMS,
                                   <<"I", "n", "v", "a", "l", "i", "d", " ", "p", "a", "y", "l", "o", "a", "d">>), h)
  ELSE IF ~IsString(GetOr(payload, K_path, JStr(<<>>)))
          \/ ~IsString(GetOr(payload, K_method, JStr(<<>>)))
          \/ GetOr(payload, K_args, JArr(<<>>)).t # "arr"
  THEN ScriptError(h)
  ELSE CallMethodChecked(request_id, GetOr(payload, K_path, JStr(<<>>)).v,
                         GetOr(payload, K_method, JStr(<<>>)).v,
                         GetOr(payload, K_args, JArr(<<>>)).v, h)

\* SceneTree.change_scene_to_file: the error it returns (0 is OK, 19 is
\* ERR_CANT_OPEN, for a resource that is no scene) and the host it leaves.
\* On success the current scene is removed at once and the new one becomes
\* current at the end of the frame.
change_scene_to_file(h, scene_path) ==
  IF scene_path \in PackedScenes
  THEN [error |-> 0,
        host |-> [h EXCEPT !.scene = "none", !.pending = "Main",
                           !.changes = Append(h.changes, <<scene_path, 0>>)]]
  ELSE [error |-> 19,
        host |-> [h EXCEPT !.changes = Append(h.changes, <<scene_path, 19>>)]]

\* Mutant of ChangeSceneReturn: the error of the replacement is not looked at.
ChangeSceneReturnAlwaysSuccess(request_id, changed) ==
  Reply(create_response(request_id, C_change_scene, JObj(<< <<K_success, JTrue>> >>)),
        changed.host)

ChangeSceneReturn(request_id, changed) ==
  IF changed.error # 0
  THEN Reply(create_error_response(request_id, C_change_scene, E_CHANGE_FAILED,
                                   <<"F", "a", "i", "l", "e", "d", " ", "t", "o", " ", "c", "h", "a", "n", "g", "e", " ", "s", "c", "e", "n", "e", ":", " ">> \o NumText(changed.error)),
             changed.host)
  ELSE Reply(create_response(request_id, C_change_scene, JObj(<< <<K_success, JTrue>> >>)),
             changed.host)

_handle_change_scene(request_id, payload, h) ==
  IF payload.t # "obj" \/ ~HasKey(payload, K_scenePath)
  THEN Reply(create_error_response(request_id, C_change_scene, E_INVALID_PARAMS,
                                   <<"M", "i", "s", "s", "i", "n", "g", " ", "'", "s", "c", "e", "n", "e", "P", "a", "t", "h", "'", " ", "p", "a", "r", "a", "m", "e", "t", "e", "r">>), h)
  ELSE IF ~IsString(Get(payload, K_scenePath)) THEN ScriptError(h)
  ELSE IF Get(payload, K_scenePath).v \notin ExistingResources
  THEN Reply(create_error_response(request_id, C_change_scene, E_SCENE_NOT_FOUND,
                                   <<"S", "c", "e", "n", "e", " ", "n", "o", "t", " ", "f", "o", "u", "n", "d", ":", " ">> \o Get(payload, K_scenePath).v), h)
  ELSE ChangeSceneReturn(request_id, change_scene_to_file(h, Get(payload, K_scenePath).v))

NoVector == <<0, 0>>
Inject(h, event) == [h EXCEPT !.events = Append(h.events, event)]

\* Mutant of InputActionChecked: the input map is not asked.
InputActionUnchecked(request_id, action, pressed, strength, h) ==
  IF action = <<>>
  THEN Reply(create_error_response(request_id, C_input_action, E_INVALID_PARAMS,
                                   <<"M", "i", "s", "s", "i", "n", "g", " ", "'", "a", "c", "t", "i", "o", "n", "'", " ", "p", "a", "r", "a", "m", "e", "t", "e", "r">>), h)
  ELSE Reply(create_response(request_id, C_input_action, JObj(<< <<K_success, JTrue>> >>)),
             IF pressed
             THEN Inject(h, InputEvent("action_press", action, 0, TRUE, strength, NoVector, NoVector, {}))
             ELSE Inject(h, InputEvent("action_release", action, 0, FALSE, 0, NoVector, NoVector, {})))

InputActionChecked(request_id, action, pressed, strength, h) ==
  IF action = <<>>
  THEN Reply(create_error_response(request_id, C_input_action, E_INVALID_PARAMS,
                                   <<"M", "i", "s", "s", "i", "n", "g", " ", "'", "a", "c", "t", "i", "o", "n", "'", " ", "p", "a", "r", "a", "m", "e", "t", "e", "r">>), h)
  ELSE IF action \notin InputMapActions
  THEN Reply(create_error_response(request_id, C_input_action, E_ACTION_NOT_FOUND,
                                   <<"I", "n", "p", "u", "t", " ", "a", "c", "t", "i", "o", "n", " ", "n", "o", "t", " ", "f", "o", "u", "n", "d", ":", " ">> \o action), h)
  ELSE Reply(create_response(request_id, C_input_action, JObj(<< <<K_success, JTrue>> >>)),
             IF pressed
             THEN Inject(h, InputEvent("action_press", action, 0, TRUE, strength, NoVector, NoVector, {}))
             ELSE Inject(h, InputEvent("action_release", action, 0, FALSE, 0, NoVector, NoVector, {})))

_handle_input_action(request_id, payload, h) ==
  IF payload.t # "obj"
  THEN Reply(create_error_response(request_id, C_input_action, E_INVALID_PARAMS,
                                   <<"I", "n", "v", "a", "l", "i", "d", " ", "p", "a", "y", "l", "o", "a", "d">>), h)
  ELSE IF ~IsString(GetOr(payload, K_action, JStr(<<>>)))
          \/ ~IsBool(GetOr(payload, K_pressed, JTrue))
          \/ ~IsNumber(GetOr(payload, K_strength, JNum(1)))
  THEN ScriptError(h)
  ELSE InputActionChecked(request_id, GetOr(payload, K_action, JStr(<<>>)).v,
                          GetOr(payload, K_pressed, JTrue) = JTrue,
                          GetOr(payload, K_strength, JNum(1)).v, h)

ModifiersOf(payload) == {m \in Modifiers : GetOr(payload, m, JFalse) = JTrue}

_handle_input_key(request_id, payload, h) ==
  IF payload.t # "obj"
  THEN Reply(create_error_response(request_id, C_input_key, E_INVALID_PARAMS,
                                   <<"I", "n", "v", "a", "l", "i", "d", " ", "p", "a", "y", "l", "o", "a", "d">>), h)
  ELSE IF ~IsNumber(GetOr(payload, K_keycode, JNum(0)))
          \/ ~IsBool(GetOr(payload, K_pressed, JTrue))
          \/ \E m \in Modifiers : ~IsBool(GetOr(payload, m, JFalse))
  THEN ScriptError(h)
  ELSE Reply(create_response(request_id, C_input_key, JObj(<< <<K_success, JTrue>> >>)),
             Inject(h, InputEvent("key", <<>>, GetOr(payload, K_keycode, JNum(0)).v,
                                  GetOr(payload, K_pressed, JTrue) = JTrue, 0,
                                  NoVector, NoVector, ModifiersOf(payload))))

\* Vector2(data.get("x", 0), data.get("y", 0)) where data is a dictionary,
\* and the vector at hand where it is not.
IsVectorData(data) ==
  data.t # "obj" \/ (IsNumber(GetOr(data, K_x, JNum(0))) /\ IsNumber(GetOr(data, K_y, JNum(0))))
VectorOf(data, otherwise) ==
  IF data.t = "obj" THEN <<GetOr(data, K_x, JNum(0)).v, GetOr(data, K_y, JNum(0)).v>>
  ELSE otherwise

_handle_input_mouse_button(request_id, payload, h) ==
  IF payload.t # "obj"
  THEN Reply(create_error_response(request_id, C_input_mouse_button, E_INVALID_PARAMS,
                                   <<"I", "n", "v", "a", "l", "i", "d", " ", "p", "a", "y", "l", "o", "a", "d">>), h)
  ELSE IF ~IsNumber(GetOr(payload, K_button, JNum(1)))
          \/ ~IsBool(GetOr(payload, K_pressed, JTrue))
          \/ ~IsVectorData(GetOr(payload, K_position, JObj(<<>>)))
  THEN ScriptError(h)
  ELSE Reply(create_response(request_id, C_input_mouse_button, JObj(<< <<K_success, JTrue>> >>)),
             Inject(h, InputEvent("mouse_button", <<>>, GetOr(payload, K_button, JNum(1)).v,
                                  GetOr(payload, K_pressed, JTrue) = JTrue, 0, NoVector,
                                  VectorOf(GetOr(payload, K_position, JObj(<<>>)), NoVector), {})))

_handle_input_mouse_motion(request_id, payload, h) ==
  IF payload.t # "obj"
  THEN Reply(create_error_response(request_id, C_input_mouse_motion, E_INVALID_PARAMS,
                                   <<"I", "n", "v", "a", "l", "i", "d", " ", "p", "a", "y", "l", "o", "a", "d">>), h)
  ELSE IF ~IsVectorData(GetOr(payload, K_relative, JObj(<<>>)))
          \/ ~IsVectorData(GetOr(payload, K_position, JNull))
  THEN ScriptError(h)
  ELSE Reply(create_response(request_id, C_input_mouse_motion, JObj(<< <<K_success, JTrue>> >>)),
             Inject(h, InputEvent("mouse_motion", <<>>, 0, FALSE, 0,
                                  VectorOf(GetOr(payload, K_relative, JObj(<<>>)), NoVector),
                                  VectorOf(GetOr(payload, K_position, JNull), NoVector), {})))

\* What _handle_screenshot keeps over its await.
ScreenshotSuspended(request_id, payload) ==
  JObj(<< <<K_id, JStr(request_id)>>,
          <<K_format, IF payload.t = "obj" THEN GetOr(payload, K_format, JStr(<<"p", "n", "g">>))
                      ELSE JStr(<<"p", "n", "g">>)>> >>)

\* Mutant of UnknownCommand: an unknown command is answered as a success.
UnknownCommandAccepted(request_id, command, h) ==
  Reply(create_response(request_id, command, JObj(<<>>)), h)

UnknownCommand(request_id, command, h) ==
  Reply(create_error_response(request_id, command, E_UNKNOWN_COMMAND,
                              <<"U", "n", "k", "n", "o", "w", "n", " ", "c", "o", "m", "m", "a", "n", "d", ":", " ">> \o command), h)

\* The match of execute.
executeMatch(command, request_id, payload, h) ==
  CASE command = C_handshake -> HandshakeOn(request_id, h)
    [] command = C_screenshot ->
         [resp |-> [kind |-> "coroutine", v |-> ScreenshotSuspended(request_id, payload)],
          host |-> h]
    [] command = C_get_scene_tree -> GetSceneTreeOn(request_id, h)
    [] command = C_get_node -> _handle_get_node(request_id, payload, h)
    [] command = C_set_property -> _handle_set_property(request_id, payload, h)
    [] command = C_call_method -> _handle_call_method(request_id, payload, h)
    [] command = C_change_scene -> _handle_change_scene(request_id, payload, h)
    [] command = C_input_action -> _handle_input_action(request_id, payload, h)
    [] command = C_input_key -> _handle_input_key(request_id, payload, h)
    [] command = C_input_mouse_button -> _handle_input_mouse_button(request_id, payload, h)
    [] command = C_input_mouse_motion -> _handle_input_mouse_motion(request_id, payload, h)
    [] OTHER -> UnknownCommand(request_id, command, h)

\* MCPCommands.execute on a host, up to its return or its suspension.
executeOn(msg, h) ==
  IF ~IsString(GetOr(msg, K_command, JStr(<<>>))) \/ ~IsString(GetOr(msg, K_id, JStr(<<>>)))
  THEN ScriptError(h)
  ELSE executeMatch(GetOr(msg, K_command, JStr(<<>>)).v, GetOr(msg, K_id, JStr(<<>>)).v,
                    GetOr(msg, K_payload, JObj(<<>>)), h)

-----------------------------------------------------------------------------
(* Dispatcher workbench: requests are drawn and given to execute, one       *)
(* after the other, on a host with or without a current scene.              *)

\* A member of a payload, or none where the value is left out (JUndef).
Opt(k, x) == IF x = JUndef THEN <<>> ELSE << <<k, x>> >>

\* The request of the next dispatch; JUndef for a request without payload.
RequestFor(command, payload) ==
  MsgOf(IdText(dCalls + 1), T_request, command, Opt(K_payload, payload))

\* Payloads that are no mapping, and the absent payload.
NonMappings == {JNull, JNum(1)}
AnyPayloads == NonMappings \cup {JUndef, JObj(<<>>), JObj(<< <<K_path, JNum(1)>> >>)}

P_player == <<"P", "l", "a", "y", "e", "r">>
P_abs_player == <<"/", "r", "o", "o", "t", "/", "M", "a", "i", "n", "/", "P", "l", "a", "y", "e", "r">>
P_abs_bridge == <<"/", "r", "o", "o", "t", "/", "M", "C", "P", "B", "r", "i", "d", "g", "e">>
P_ghost == <<"G", "h", "o", "s", "t">>
P_root == <<"/", "r", "o", "o", "t">>
P_self == <<".">>
NodePaths == {P_player, P_abs_player, P_abs_bridge, P_ghost, P_root, P_self}

N_health == <<"h", "e", "a", "l", "t", "h">>
N_ghost == <<"g", "h", "o", "s", "t">>
M_fly == <<"f", "l", "y">>
A_fly == <<"f", "l", "y">>
VectorData == JObj(<< <<K_x, JNum(1)>>, <<K_y, JNum(2)>> >>)

GetNodePayloads ==
  NonMappings \cup {JObj(<<>>), JObj(<< <<K_path, JNum(1)>> >>),
                    JObj(<< <<K_path, JStr(<<>>)>> >>)}
    \cup {JObj(<< <<K_path, JStr(p)>> >>) : p \in NodePaths}

AddressPaths == {JUndef, JStr(P_player), JStr(P_abs_player), JStr(P_ghost)}

SetPropertyPayloads ==
  NonMappings
    \cup {JObj(Opt(K_path, p) \o Opt(K_property, q) \o Opt(K_value, x)) :
            p \in AddressPaths, q \in {JUndef, JStr(N_health), JStr(N_ghost)},
            x \in {JUndef, JNum(5)}}

CallMethodPayloads ==
  NonMappings
    \cup {JObj(Opt(K_path, p) \o Opt(K_method, m) \o Opt(K_args, a)) :
            p \in AddressPaths, m \in {JUndef, JStr(M_reset), JStr(M_fly)},
            a \in {JUndef, JArr(<<JNum(1)>>)}}

ChangeScenePayloads ==
  NonMappings
    \cup {JObj(Opt(K_scenePath, s)) : s \in {JUndef, JStr(R_main), JStr(R_icon), JStr(R_none)}}

InputActionPayloads ==
  NonMappings
    \cup {JObj(Opt(K_action, a) \o Opt(K_pressed, p) \o Opt(K_strength, s)) :
            a \in {JUndef, JStr(A_jump), JStr(A_fly)}, p \in {JUndef, JFalse},
            s \in {JUndef, JNum(2)}}

InputKeyPayloads ==
  NonMappings
    \cup {JObj(Opt(K_keycode, k) \o Opt(K_pressed, p) \o Opt(<<"s", "h", "i", "f", "t">>, s)) :
            k \in {JUndef, JNum(65)}, p \in {JUndef, JFalse}, s \in {JUndef, JTrue}}

InputMouseButtonPayloads ==
  NonMappings
    \cup {JObj(Opt(K_button, b) \o Opt(K_pressed, p) \o Opt(K_position, v)) :
            b \in {JUndef, JNum(2)}, p \in {JUndef, JFalse}, v \in {JUndef, VectorData}}

InputMouseMotionPayloads ==
  NonMappings
    \cup {JObj(Opt(K_relative, r) \o Opt(K_position, v)) :
            r \in {JUndef, VectorData}, v \in {JUndef, VectorData}}

ScreenshotPayloads == NonMappings \cup {JUndef, JObj(<< <<K_format, JStr(<<"j", "p", "g">>)>> >>)}

\* Command strings that are not in the catalog.
UnknownCommands == {C_nope, <<>>, <<"H", "a", "n", "d", "s", "h", "a", "k", "e">>, <<"g", "e", "t", "_", "n", "o", "d", "e", " ">>}

NoReturn == [kind |-> "none", v |-> JNull]

DispatchInit ==
  /\ dHost \in {HostOf("none"), HostOf("Main")}
  /\ dMsg = JNull
  /\ dResult = NoReturn
  /\ dCalls = 0

\* The workbench is not used by the other specifications.
DispatchParked ==
  /\ dHost = HostOf("none")
  /\ dMsg = JNull
  /\ dResult = NoReturn
  /\ dCalls = 0

\* execute(msg) is called, and has returned or is suspended.
Dispatched(msg, out) ==
  /\ dCalls < MaxDispatches
  /\ dResult.kind # "coroutine"
  /\ dMsg' = msg
  /\ dResult' = out.resp
  /\ dHost' = out.host
  /\ dCalls' = dCalls + 1
  /\ UNCHANGED <<cvars, clvars, pvars, tvars>>

Dispatch(msg) == Dispatched(msg, executeOn(msg, dHost))

DispatchHandshake == \E p \in AnyPayloads : Dispatch(RequestFor(C_handshake, p))
DispatchScreenshot == \E p \in ScreenshotPayloads : Dispatch(RequestFor(C_screenshot, p))
DispatchGetSceneTree == \E p \in AnyPayloads : Dispatch(RequestFor(C_get_scene_tree, p))
DispatchGetNode == \E p \in GetNodePayloads : Dispatch(RequestFor(C_get_node, p))
DispatchSetProperty == \E p \in SetPropertyPayloads : Dispatch(RequestFor(C_set_property, p))
DispatchCallMethod == \E p \in CallMethodPayloads : Dispatch(RequestFor(C_call_method, p))
DispatchChangeScene == \E p \in ChangeScenePayloads : Dispatch(RequestFor(C_change_scene, p))
DispatchInputAction == \E p \in InputActionPayloads : Dispatch(RequestFor(C_input_action, p))
DispatchInputKey == \E p \in InputKeyPayloads : Dispatch(RequestFor(C_input_key, p))
DispatchInputMouseButton ==
  \E p \in InputMouseButtonPayloads : Dispatch(RequestFor(C_input_mouse_button, p))
DispatchInputMouseMotion ==
  \E p \in InputMouseMotionPayloads : Dispatch(RequestFor(C_input_mouse_motion, p))
DispatchUnknown ==
  \E c \in UnknownCommands, p \in AnyPayloads : Dispatch(RequestFor(c, p))

\* The frame has been drawn: the suspended screenshot handler runs to its
\* return.
ScreenshotReturns ==
  /\ dResult.kind = "coroutine"
  /\ \E capture \in HostCaptures :
       dResult' = [kind |-> "dictionary",
                   v |-> ScreenshotResume(Get(dResult.v, K_id).v, capture)]
  /\ UNCHANGED <<dHost, dMsg, dCalls>>
  /\ UNCHANGED <<cvars, clvars, pvars, tvars>>

\* The end of the frame: the scene asked for becomes the current scene.
SceneInstalled ==
  /\ dHost.pending # "none"
  /\ dHost' = [dHost EXCEPT !.scene = dHost.pending, !.pending = "none", !.props = FreshProps]
  /\ UNCHANGED <<dMsg, dResult, dCalls>>
  /\ UNCHANGED <<cvars, clvars, pvars, tvars>>

DispatchNext ==
  \/ DispatchHandshake \/ DispatchScreenshot \/ DispatchGetSceneTree \/ DispatchGetNode
  \/ DispatchSetProperty \/ DispatchCallMethod \/ DispatchChangeScene
  \/ DispatchInputAction \/ DispatchInputKey \/ DispatchInputMouseButton
  \/ DispatchInputMouseMotion \/ DispatchUnknown
  \/ ScreenshotReturns \/ SceneInstalled

-----------------------------------------------------------------------------
(* Tool handlers of the controller (handlers/tools/*.ts): each looks up the *)
(* run, checks it and its bridge, passes one request to sendRequest and     *)
(* turns the outcome into a text for its caller.                            *)

MaxToolCalls == 2

RunId == <<"r", "1">>
BridgeCapabilities == {<<"n", "o", "d", "e", "s">>, <<"s", "c", "e", "n", "e">>, <<"i", "n", "p", "u", "t">>}

\* runningProjects.get(runId) gives nothing, or the run: its status, whether
\* it has a bridge, the bridgeConnected flag, and of the bridge _isConnected
\* and _capabilities.
NoProject ==
  [present |-> FALSE, status |-> "none", bridge |-> FALSE, bridgeConnected |-> FALSE,
   isConnected |-> FALSE, caps |-> {}]
ProjectRuns ==
  {p \in [present : {TRUE}, status : {"running", "exited"}, bridge : BOOLEAN,
          bridgeConnected : BOOLEAN, isConnected : BOOLEAN, caps : SUBSET BridgeCapabilities] :
     ~p.bridge => (~p.isConnected /\ p.caps = {})}

NoToolCall == [tool |-> "none", args |-> JNull]
NoToolReturn == [kind |-> "none", text |-> <<>>]
\* { content: [{ type: "text", text }] }
TextResult(text) == [kind |-> "text", text |-> text]
\* An exception that leaves the handler.
Thrown(error) == [kind |-> "raise", text |-> error.name \o <<":", " ">> \o error.message]
Pass == [kind |-> "pass", text |-> <<>>]

JSError(message) == [name |-> <<"E", "r", "r", "o", "r">>, message |-> message]
TypeError(message) == [name |-> <<"T", "y", "p", "e", "E", "r", "r", "o", "r">>, message |-> message]
\* `${error}`
ErrorText(error) == error.name \o <<":", " ">> \o error.message

NotConnectedText ==
  <<"M", "C", "P", " ", "B", "r", "i", "d", "g", "e", " ", "a", "d", "d", "o", "n", " ", "n", "o", "t", " ", "c", "o", "n", "n", "e", "c", "t", "e", "d", ".", " ", "E", "n", "s", "u", "r", "e", " ", "t", "h", "e", " ", "a", "d", "d", "o", "n", " ", "i", "s", " ", "i", "n", "s", "t", "a", "l", "l", "e", "d", " ", "i", "n", " ", "y", "o", "u", "r", " ", "G", "o", "d", "o", "t", " ", "p", "r", "o", "j", "e", "c", "t", " ", "a", "n", "d", " ", "t", "h", "e", " ", "p", "r", "o", "j", "e", "c", "t", " ", "w", "a", "s", " ", "l", "a", "u", "n", "c", "h", "e", "d", " ", "v", "i", "a", " ", "r", "u", "n", "_", "p", "r", "o", "j", "e", "c", "t", ".">>

\* The capability is asked of the bridge before the bridge is known to be there.
PrecheckCapabilityFirst(project, runId, cap) ==
  IF ~project.present THEN TextResult(<<"N", "o", " ", "p", "r", "o", "j", "e", "c", "t", " ", "f", "o", "u", "n", "d", " ", "w", "i", "t", "h", " ", "r", "u", "n", " ", "I", "D", ":", " ">> \o runId)
  ELSE IF project.status = "exited" THEN TextResult(<<"P", "r", "o", "j", "e", "c", "t", " ">> \o runId \o <<" ", "h", "a", "s", " ", "e", "x", "i", "t", "e", "d">>)
  ELSE IF ~project.bridge
       THEN Thrown(TypeError(<<"C", "a", "n", "n", "o", "t", " ", "r", "e", "a", "d", " ", "p", "r", "o", "p", "e", "r", "t", "i", "e", "s", " ", "o", "f", " ", "u", "n", "d", "e", "f", "i", "n", "e", "d", " ", "(", "r", "e", "a", "d", "i", "n", "g", " ", "'", "h", "a", "s", "C", "a", "p", "a", "b", "i", "l", "i", "t", "y", "'", ")">>))
  ELSE IF cap \notin project.caps
       THEN TextResult(<<"B", "r", "i", "d", "g", "e", " ", "d", "o", "e", "s", " ", "n", "o", "t", " ", "s", "u", "p", "p", "o", "r", "t", " ">> \o cap \o <<" ", "c", "a", "p", "a", "b", "i", "l", "i", "t", "y">>)
  ELSE IF ~project.bridgeConnected THEN TextResult(NotConnectedText)
  ELSE Pass

\* The checks every bridge tool makes before its try block.
Precheck(project, runId, cap) ==
  IF ~project.present THEN TextResult(<<"N", "o", " ", "p", "r", "o", "j", "e", "c", "t", " ", "f", "o", "u", "n", "d", " ", "w", "i", "t", "h", " ", "r", "u", "n", " ", "I", "D", ":", " ">> \o runId)
  ELSE IF project.status = "exited" THEN TextResult(<<"P", "r", "o", "j", "e", "c", "t", " ">> \o runId \o <<" ", "h", "a", "s", " ", "e", "x", "i", "t", "e", "d">>)
  ELSE IF ~project.bridge \/ ~project.bridgeConnected THEN TextResult(NotConnectedText)
  ELSE IF cap \notin project.caps
       THEN TextResult(<<"B", "r", "i", "d", "g", "e", " ", "d", "o", "e", "s", " ", "n", "o", "t", " ", "s", "u", "p", "p", "o", "r", "t", " ">> \o cap \o <<" ", "c", "a", "p", "a", "b", "i", "l", "i", "t", "y">>)
  ELSE Pass

\* JSON.stringify(x, null, 2)
Spaces(n) == [i \in 1..n |-> " "]
RECURSIVE StringifyIndent(_, _)
RECURSIVE IndentMembers(_, _, _)
RECURSIVE IndentElems(_, _, _)
StringifyIndent(x, ind) ==
  CASE x.t = "arr" ->
         IF x.v = <<>> THEN <<"[", "]">>
         ELSE <<"[", "\n">> \o IndentElems(x.v, ind + 2, TRUE) \o <<"\n">> \o Spaces(ind) \o <<"]">>
    [] x.t = "obj" ->
         IF \A i \in 1..Len(x.v) : x.v[i][2].t = "undef" THEN <<"{", "}">>
         ELSE <<"{", "\n">> \o IndentMembers(x.v, ind + 2, TRUE) \o <<"\n">> \o Spaces(ind) \o <<"}">>
    [] OTHER -> JSONstringify(x)

IndentMembers(ms, ind, first) ==
  IF ms = <<>> THEN <<>>
  ELSE IF Head(ms)[2].t = "undef" THEN IndentMembers(Tail(ms), ind, first)
  ELSE (IF first THEN <<>> ELSE <<",", "\n">>)
       \o Spaces(ind) \o Quote(Head(ms)[1]) \o <<":", " ">> \o StringifyIndent(Head(ms)[2], ind)
       \o IndentMembers(Tail(ms), ind, FALSE)

IndentElems(es, ind, first) ==
  IF es = <<>> THEN <<>>
  ELSE (IF first THEN <<>> ELSE <<",", "\n">>)
       \o Spaces(ind) \o StringifyIndent(Head(es), ind) \o IndentElems(Tail(es), ind, FALSE)

\* JSON.stringify gives undefined for undefined, and the template literal or
\* the text field then carries that.
StringifyText(x) == IF x.t = "undef" THEN <<"u", "n", "d", "e", "f", "i", "n", "e", "d">> ELSE StringifyIndent(x, 0)

\* A parameter default: used when the argument is undefined.
Default(x, d) == IF x.t = "undef" THEN d ELSE x

BridgeTools ==
  {"getSceneTree", "getNode", "setProperty", "callMethod", "changeScene", "sendInputAction",
   "sendInputKey", "sendInputMouseButton", "sendInputMouseMotion"}

\* hasCapability(...) of each handler
NeededCapability(tool) ==
  CASE tool \in {"getSceneTree", "getNode", "setProperty", "callMethod"} -> <<"n", "o", "d", "e", "s">>
    [] tool = "changeScene" -> <<"s", "c", "e", "n", "e">>
    [] OTHER -> <<"i", "n", "p", "u", "t">>

\* The command each handler passes to sendRequest.
CommandOf(tool) ==
  CASE tool = "getSceneTree" -> C_get_scene_tree
    [] tool = "getNode" -> <<"g", "e", "t", "_", "n", "o", "d", "e">>
    [] tool = "setProperty" -> C_set_property
    [] tool = "callMethod" -> C_call_method
    [] tool = "changeScene" -> C_change_scene
    [] tool = "sendInputAction" -> C_input_action
    [] tool = "sendInputKey" -> C_input_key
    [] tool = "sendInputMouseButton" -> C_input_mouse_button
    [] OTHER -> C_input_mouse_motion

Pressed(a) == Default(Get(a, <<"p", "r", "e", "s", "s", "e", "d">>), JTrue)
XY(x, y) == JObj(<< <<<<"x">>, x>>, <<<<"y">>, y>> >>)

\* The payload each handler builds from its arguments.
PayloadOf(tool, a) ==
  CASE tool = "getSceneTree" -> JObj(<<>>)
    [] tool = "getNode" -> JObj(<< <<K_path, Get(a, <<"n", "o", "d", "e", "P", "a", "t", "h">>)>> >>)
    [] tool = "setProperty" ->
         JObj(<< <<K_path, Get(a, <<"n", "o", "d", "e", "P", "a", "t", "h">>)>>, <<K_property, Get(a, K_property)>>,
                 <<K_value, Get(a, K_value)>> >>)
    [] tool = "callMethod" ->
         JObj(<< <<K_path, Get(a, <<"n", "o", "d", "e", "P", "a", "t", "h">>)>>, <<K_method, Get(a, K_method)>>,
                 <<K_args, IF Get(a, K_args).t \in {"undef", "null"} THEN JArr(<<>>) ELSE Get(a, K_args)>> >>)
    [] tool = "changeScene" -> JObj(<< <<<<"s", "c", "e", "n", "e", "P", "a", "t", "h">>, Get(a, <<"s", "c", "e", "n", "e", "P", "a", "t", "h">>)>> >>)
    [] tool = "sendInputAction" ->
         JObj(<< <<<<"a", "c", "t", "i", "o", "n">>, Get(a, <<"a", "c", "t", "i", "o", "n">>)>>, <<<<"p", "r", "e", "s", "s", "e", "d">>, Pressed(a)>>,
                 <<<<"s", "t", "r", "e", "n", "g", "t", "h">>, Default(Get(a, <<"s", "t", "r", "e", "n", "g", "t", "h">>), JNum(1))>> >>)
    [] tool = "sendInputKey" ->
         JObj(<< <<<<"k", "e", "y", "c", "o", "d", "e">>, Get(a, <<"k", "e", "y", "c", "o", "d", "e">>)>>, <<<<"p", "r", "e", "s", "s", "e", "d">>, Pressed(a)>>,
                 <<<<"s", "h", "i", "f", "t">>, Default(Get(a, <<"s", "h", "i", "f", "t">>), JFalse)>>,
                 <<<<"c", "t", "r", "l">>, Default(Get(a, <<"c", "t", "r", "l">>), JFalse)>>,
                 <<<<"a", "l", "t">>, Default(Get(a, <<"a", "l", "t">>), JFalse)>>,
                 <<<<"m", "e", "t", "a">>, Default(Get(a, <<"m", "e", "t", "a">>), JFalse)>> >>)
    [] tool = "sendInputMouseButton" ->
         JObj(<< <<<<"b", "u", "t", "t", "o", "n">>, Get(a, <<"b", "u", "t", "t", "o", "n">>)>>, <<<<"p", "r", "e", "s", "s", "e", "d">>, Pressed(a)>>,
                 <<<<"p", "o", "s", "i", "t", "i", "o", "n">>, XY(Get(a, <<"x">>), Get(a, <<"y">>))>> >>)
    [] OTHER ->
         JObj(<< <<<<"r", "e", "l", "a", "t", "i", "v", "e">>, XY(Get(a, <<"r", "e", "l", "a", "t", "i", "v", "e", "X">>), Get(a, <<"r", "e", "l", "a", "t", "i", "v", "e", "Y">>))>> >>
              \o IF Get(a, <<"x">>).t # "undef" /\ Get(a, <<"y">>).t # "undef"
                 THEN << <<<<"p", "o", "s", "i", "t", "i", "o", "n">>, XY(Get(a, <<"x">>), Get(a, <<"y">>))>> >>
                 ELSE <<>>)

\* The text of each handler's catch block.
FailurePrefix(tool) ==
  CASE tool = "getSceneTree" -> <<"F", "a", "i", "l", "e", "d", " ", "t", "o", " ", "g", "e", "t", " ", "s", "c", "e", "n", "e", " ", "t", "r", "e", "e", ":", " ">>
    [] tool = "getNode" -> <<"F", "a", "i", "l", "e", "d", " ", "t", "o", " ", "g", "e", "t", " ", "n", "o", "d", "e", ":", " ">>
    [] tool = "setProperty" -> <<"F", "a", "i", "l", "e", "d", " ", "t", "o", " ", "s", "e", "t", " ", "p", "r", "o", "p", "e", "r", "t", "y", ":", " ">>
    [] tool = "callMethod" -> <<"F", "a", "i", "l", "e", "d", " ", "t", "o", " ", "c", "a", "l", "l", " ", "m", "e", "t", "h", "o", "d", ":", " ">>
    [] tool = "changeScene" -> <<"F", "a", "i", "l", "e", "d", " ", "t", "o", " ", "c", "h", "a", "n", "g", "e", " ", "s", "c", "e", "n", "e", ":", " ">>
    [] tool = "sendInputAction" -> <<"F", "a", "i", "l", "e", "d", " ", "t", "o", " ", "s", "e", "n", "d", " ", "i", "n", "p", "u", "t", " ", "a", "c", "t", "i", "o", "n", ":", " ">>
    [] tool = "sendInputKey" -> <<"F", "a", "i", "l", "e", "d", " ", "t", "o", " ", "s", "e", "n", "d", " ", "k", "e", "y", " ", "i", "n", "p", "u", "t", ":", " ">>
    [] tool = "sendInputMouseButton" -> <<"F", "a", "i", "l", "e", "d", " ", "t", "o", " ", "s", "e", "n", "d", " ", "m", "o", "u", "s", "e", " ", "b", "u", "t", "t", "o", "n", " ", "i", "n", "p", "u", "t", ":", " ">>
    [] OTHER -> <<"F", "a", "i", "l", "e", "d", " ", "t", "o", " ", "s", "e", "n", "d", " ", "m", "o", "u", "s", "e", " ", "m", "o", "t", "i", "o", "n", " ", "i", "n", "p", "u", "t", ":", " ">>

Caught(tool, error) == TextResult(FailurePrefix(tool) \o ErrorText(error))

PressedWord(a) == IF Truthy(Pressed(a)) THEN <<"p", "r", "e", "s", "s", "e", "d">> ELSE <<"r", "e", "l", "e", "a", "s", "e", "d">>

\* A property read of the resolved value inside the try block: null and
\* undefined have no properties.
ReadOf(tool, response, key, text(_)) ==
  IF response.t \in {"undef", "null"}
  THEN Caught(tool, TypeError(<<"C", "a", "n", "n", "o", "t", " ", "r", "e", "a", "d", " ", "p", "r", "o", "p", "e", "r", "t", "i", "e", "s", " ", "o", "f", " ">> \o TemplateText(response)
                              \o <<" ", "(", "r", "e", "a", "d", "i", "n", "g", " ", "'">> \o key \o <<"'", ")">>))
  ELSE TextResult(text(Get(response, key)))

CallMethodText(result) ==
  IF result.t # "undef" THEN <<"R", "e", "s", "u", "l", "t", ":", " ">> \o StringifyIndent(result, 0)
  ELSE <<"M", "e", "t", "h", "o", "d", " ", "c", "a", "l", "l", "e", "d", " ", "s", "u", "c", "c", "e", "s", "s", "f", "u", "l", "l", "y", " ", "(", "n", "o", " ", "r", "e", "t", "u", "r", "n", " ", "v", "a", "l", "u", "e", ")">>

\* The rest of the try block, after sendRequest has resolved.
AfterAwait(tool, a, response) ==
  CASE tool = "getSceneTree" -> ReadOf(tool, response, <<"r", "o", "o", "t">>, StringifyText)
    [] tool = "getNode" -> ReadOf(tool, response, <<"n", "o", "d", "e">>, StringifyText)
    [] tool = "callMethod" -> ReadOf(tool, response, <<"r", "e", "s", "u", "l", "t">>, CallMethodText)
    [] tool = "setProperty" ->
         TextResult(<<"P", "r", "o", "p", "e", "r", "t", "y", " ", "'">> \o TemplateText(Get(a, K_property)) \o <<"'", " ", "s", "e", "t", " ", "s", "u", "c", "c", "e", "s", "s", "f", "u", "l", "l", "y", " ", "o", "n", " ", "n", "o", "d", "e", " ", "'">>
                    \o TemplateText(Get(a, <<"n", "o", "d", "e", "P", "a", "t", "h">>)) \o <<"'">>)
    [] tool = "changeScene" -> TextResult(<<"S", "c", "e", "n", "e", " ", "c", "h", "a", "n", "g", "e", "d", " ", "t", "o", ":", " ">> \o TemplateText(Get(a, <<"s", "c", "e", "n", "e", "P", "a", "t", "h">>)))
    [] tool = "sendInputAction" ->
         TextResult(<<"I", "n", "p", "u", "t", " ", "a", "c", "t", "i", "o", "n", " ", "'">> \o TemplateText(Get(a, <<"a", "c", "t", "i", "o", "n">>)) \o <<"'", " ">> \o PressedWord(a))
    [] tool = "sendInputKey" ->
         TextResult(<<"K", "e", "y", " ">> \o TemplateText(Get(a, <<"k", "e", "y", "c", "o", "d", "e">>)) \o <<" ">> \o PressedWord(a))
    [] tool = "sendInputMouseButton" ->
         TextResult(<<"M", "o", "u", "s", "e", " ", "b", "u", "t", "t", "o", "n", " ">> \o TemplateText(Get(a, <<"b", "u", "t", "t", "o", "n">>)) \o <<" ">> \o PressedWord(a)
                    \o <<" ", "a", "t", " ", "(">> \o TemplateText(Get(a, <<"x">>)) \o <<",", " ">> \o TemplateText(Get(a, <<"y">>)) \o <<")">>)
    [] OTHER ->
         TextResult(<<"M", "o", "u", "s", "e", " ", "m", "o", "t", "i", "o", "n", ":", " ", "r", "e", "l", "a", "t", "i", "v", "e", " ", "(">> \o TemplateText(Get(a, <<"r", "e", "l", "a", "t", "i", "v", "e", "X">>)) \o <<",", " ">>
                    \o TemplateText(Get(a, <<"r", "e", "l", "a", "t", "i", "v", "e", "Y">>)) \o <<")">>
                    \o IF Get(a, <<"x">>).t # "undef"
                       THEN <<" ", "a", "t", " ", "(">> \o TemplateText(Get(a, <<"x">>)) \o <<",", " ">>
                            \o TemplateText(Get(a, <<"y">>)) \o <<")">>
                       ELSE <<>>)

\* How sendRequest can settle once the request is pending: with the payload
\* of the response, or with one of its rejections.
Rejections(command) ==
  {JSError(<<"R", "e", "q", "u", "e", "s", "t", " ", "'">> \o command \o <<"'", " ", "t", "i", "m", "e", "d", " ", "o", "u", "t", " ", "a", "f", "t", "e", "r", " ", "5", "0", "0", "0", "m", "s">>),
   JSError(<<"N", "O", "D", "E", "_", "N", "O", "T", "_", "F", "O", "U", "N", "D", ":", " ", "N", "o", "d", "e", " ", "n", "o", "t", " ", "f", "o", "u", "n", "d", ":", " ", "G", "h", "o", "s", "t">>),
   JSError(<<"P", "r", "o", "c", "e", "s", "s", " ", "e", "x", "i", "t", "e", "d">>),
   JSError(<<"B", "r", "i", "d", "g", "e", " ", "d", "e", "s", "t", "r", "o", "y", "e", "d">>)}
ResolvedValues ==
  {JUndef, JNull, JObj(<<>>),
   JObj(<< <<<<"s", "u", "c", "c", "e", "s", "s">>, JTrue>> >>),
   JObj(<< <<<<"r", "e", "s", "u", "l", "t">>, JNum(3)>> >>),
   JObj(<< <<<<"n", "o", "d", "e">>, JObj(<< <<<<"n", "a", "m", "e">>, JStr(<<"P", "l", "a", "y", "e", "r">>)>>, <<<<"p", "r", "o", "p", "e", "r", "t", "i", "e", "s">>, JObj(<<>>)>> >>)>> >>),
   JObj(<< <<<<"r", "o", "o", "t">>, JObj(<< <<<<"n", "a", "m", "e">>, JStr(<<"M", "a", "i", "n">>)>>, <<<<"c", "h", "i", "l", "d", "r", "e", "n">>, JArr(<<>>)>> >>)>> >>)}

\* A handler from its entry to its first return or to its await.
ToolEnters(tool, a) ==
  /\ tPc = "idle"
  /\ tCalls < MaxToolCalls
  /\ tCalls' = tCalls + 1
  /\ tCall' = [tool |-> tool, args |-> a]
  /\ LET pre == Precheck(tProject, TemplateText(Get(a, <<"r", "u", "n", "I", "d">>)), NeededCapability(tool))
     IN  IF pre.kind # "pass"
         THEN /\ tReturn' = pre
              /\ tPc' = "idle"
              /\ tSent' = tSent
         ELSE /\ tSent' = Append(tSent, <<CommandOf(tool), PayloadOf(tool, a)>>)
              /\ IF ~tProject.isConnected
                 THEN /\ tReturn' = Caught(tool, JSError(<<"B", "r", "i", "d", "g", "e", " ", "n", "o", "t", " ", "c", "o", "n", "n", "e", "c", "t", "e", "d">>))
                      /\ tPc' = "idle"
                 ELSE /\ tReturn' = NoToolReturn
                      /\ tPc' = "awaiting"
  /\ UNCHANGED tProject
  /\ UNCHANGED <<cvars, clvars, pvars, dvars>>

Run(ms) == JObj(<< <<<<"r", "u", "n", "I", "d">>, JStr(RunId)>> >> \o ms)
Maybe(k, xs) == {<<>>} \cup {<< <<k, x>> >> : x \in xs}

getSceneTree == ToolEnters("getSceneTree", Run(<<>>))
getNode == ToolEnters("getNode", Run(<< <<<<"n", "o", "d", "e", "P", "a", "t", "h">>, JStr(<<"P", "l", "a", "y", "e", "r">>)>> >>))
setProperty ==
  \E v \in Maybe(K_value, {JNum(5)}) :
    ToolEnters("setProperty", Run(<< <<<<"n", "o", "d", "e", "P", "a", "t", "h">>, JStr(<<"P", "l", "a", "y", "e", "r">>)>>, <<K_property, JStr(<<"h", "e", "a", "l", "t", "h">>)>> >> \o v))
callMethod ==
  \E v \in Maybe(K_args, {JArr(<<JNum(1)>>)}) :
    ToolEnters("callMethod", Run(<< <<<<"n", "o", "d", "e", "P", "a", "t", "h">>, JStr(<<"P", "l", "a", "y", "e", "r">>)>>, <<K_method, JStr(<<"r", "e", "s", "e", "t">>)>> >> \o v))
changeScene == ToolEnters("changeScene", Run(<< <<<<"s", "c", "e", "n", "e", "P", "a", "t", "h">>, JStr(<<"r", "e", "s", ":", "/", "/", "m", "a", "i", "n", ".", "t", "s", "c", "n">>)>> >>))
sendInputAction ==
  \E v \in Maybe(<<"p", "r", "e", "s", "s", "e", "d">>, {JFalse}) :
    ToolEnters("sendInputAction", Run(<< <<<<"a", "c", "t", "i", "o", "n">>, JStr(<<"j", "u", "m", "p">>)>> >> \o v))
sendInputKey ==
  \E v \in Maybe(<<"s", "h", "i", "f", "t">>, {JTrue}) :
    ToolEnters("sendInputKey", Run(<< <<<<"k", "e", "y", "c", "o", "d", "e">>, JNum(65)>> >> \o v))
sendInputMouseButton ==
  ToolEnters("sendInputMouseButton", Run(<< <<<<"b", "u", "t", "t", "o", "n">>, JNum(1)>>, <<<<"x">>, JNum(3)>>, <<<<"y">>, JNum(4)>> >>))
sendInputMouseMotion ==
  \E vx \in Maybe(<<"x">>, {JNum(3)}), vy \in Maybe(<<"y">>, {JNum(4)}) :
    ToolEnters("sendInputMouseMotion", Run(<< <<<<"r", "e", "l", "a", "t", "i", "v", "e", "X">>, JNum(1)>>, <<<<"r", "e", "l", "a", "t", "i", "v", "e", "Y">>, JNum(2)>> >> \o vx \o vy))

\* sendRequest settles and the handler goes on to its return.
ToolResumes ==
  /\ tPc = "awaiting"
  /\ \E settle \in {"resolve", "reject"} :
       \/ /\ settle = "resolve"
          /\ \E response \in ResolvedValues : tReturn' = AfterAwait(tCall.tool, tCall.args, response)
       \/ /\ settle = "reject"
          /\ \E error \in Rejections(CommandOf(tCall.tool)) : tReturn' = Caught(tCall.tool, error)
  /\ tPc' = "idle"
  /\ UNCHANGED <<tProject, tCall, tSent, tCalls>>
  /\ UNCHANGED <<cvars, clvars, pvars, dvars>>

\* The process of the run ends: its status changes, and its bridge is no
\* longer connected.
ProjectExit ==
  /\ tProject.present
  /\ tProject.status = "running"
  /\ tProject' = [tProject EXCEPT !.status = "exited", !.isConnected = FALSE]
  /\ UNCHANGED <<tPc, tCall, tReturn, tSent, tCalls>>
  /\ UNCHANGED <<cvars, clvars, pvars, dvars>>

ToolsInit ==
  /\ tProject \in {NoProject} \cup ProjectRuns
  /\ tPc = "idle"
  /\ tCall = NoToolCall
  /\ tReturn = NoToolReturn
  /\ tSent = <<>>
  /\ tCalls = 0

ToolsParked ==
  /\ tProject = NoProject
  /\ tPc = "idle"
  /\ tCall = NoToolCall
  /\ tReturn = NoToolReturn
  /\ tSent = <<>>
  /\ tCalls = 0

ToolsNext ==
  \/ getSceneTree \/ getNode \/ setProperty \/ callMethod \/ changeScene
  \/ sendInputAction \/ sendInputKey \/ sendInputMouseButton \/ sendInputMouseMotion
  \/ ToolResumes \/ ProjectExit

-----------------------------------------------------------------------------
(* Codec workbench: inputs are drawn, encoded, and fed to the codec.        *)

MaxPieces == 3

MsgRequest == MsgOf(<<"1">>, T_request, <<"g", "o">>, << <<K_payload, JObj(<<>>)>> >>)
MsgResult ==
  MsgOf(<<"2">>, T_response, <<"g", "o">>,
        << <<K_payload,
             JObj(<< << <<"a">>, JArr(<<JNum(-12), JTrue, JStr(<<"x", "\"", "]">>)>>) >> >>)>> >>)
MsgError ==
  MsgOf(<<"3">>, T_response, <<"g", "o">>,
        << <<K_payload, JNull>>, <<K_error, ErrorOf(<<"E">>, <<"n", "o">>)>> >>)
MsgEvent == MsgOf(<<"4">>, T_event, <<"e", "v">>, <<>>)
\* what the set_property tool sends when its optional value is not given
MsgUndef ==
  MsgOf(<<"5">>, T_request, <<"s", "e", "t">>,
        << <<K_payload, JObj(<< << <<"p">>, JStr(<<"n">>) >>, << <<"v">>, JUndef >> >>)>> >>)
MsgNaN == MsgOf(<<"6">>, T_request, <<"g", "o">>, << <<K_payload, JNaN>> >>)

CodecMessages == {MsgRequest, MsgResult, MsgError, MsgEvent, MsgUndef, MsgNaN}

\* A value that JSON text can carry.
RECURSIVE IsJson(_)
IsJson(x) ==
  CASE x.t \in {"null", "bool", "num", "str"} -> TRUE
    [] x.t = "arr" -> \A i \in 1..Len(x.v) : IsJson(x.v[i])
    [] x.t = "obj" -> \A i \in 1..Len(x.v) : IsJson(x.v[i][2])
    [] OTHER -> FALSE

\* Console text without the prefix token: plain, holding a suffix token,
\* ending in the first characters of the prefix token.
Texts == {<<"o", "k", "\n">>, <<"a", "]", "b">>, <<"[", "M", "C", "P", "_">>}

\* Interiors of prefix..suffix spans that do not decode to a message:
\* empty, the JSON text 5, a second prefix token.
SpanInteriors == {<<>>, <<"N", "Q", "=", "=">>, PREFIX \o <<"a", "b">>}

\* A frame whose end has not arrived.
TailTexts == {PREFIX \o <<"e", "y", "J", "p">>}

TextPiece(t) == [kind |-> "text", arg |-> JStr(t)]
SpanPiece(t) == [kind |-> "span", arg |-> JStr(PREFIX \o t \o SUFFIX)]
TailPiece(t) == [kind |-> "tail", arg |-> JStr(t)]
FramePiece(m) == [kind |-> "frame", arg |-> m]
LinePiece(t) == [kind |-> "line", arg |-> JStr(t)]
RecordPiece(x) == [kind |-> "record", arg |-> x]

\* Lines that are no frame: no prefix, no suffix, neither; interiors that are
\* no base64 text, no JSON text ("{"), the JSON texts null and [].
BadLines ==
  {<<"a", "]">>, PREFIX \o <<"e", "w", "=", "=">>, <<"o", "k">>,
   PREFIX \o <<"%", "%">> \o SUFFIX,
   PREFIX \o <<"e", "w", "=", "=">> \o SUFFIX,
   PREFIX \o <<"b", "n", "V", "s", "b", "A", "=", "=">> \o SUFFIX,
   PREFIX \o <<"W", "1", "0", "=">> \o SUFFIX}

\* Records that are no message: one of id, kind, command is missing, is no
\* string, or the kind is none of the three.
BadRecords ==
  {JObj(<< <<K_type, JStr(T_request)>>, <<K_command, JStr(<<"g", "o">>)>> >>),
   JObj(<< <<K_id, JStr(<<"7">>)>>, <<K_command, JStr(<<"g", "o">>)>> >>),
   JObj(<< <<K_id, JStr(<<"7">>)>>, <<K_type, JStr(T_request)>> >>),
   JObj(<< <<K_id, JNum(7)>>, <<K_type, JStr(T_request)>>, <<K_command, JStr(<<"g", "o">>)>> >>),
   JObj(<< <<K_id, JStr(<<"7">>)>>, <<K_type, JStr(<<"n", "o">>)>>,
           <<K_command, JStr(<<"g", "o">>)>> >>),
   JObj(<<>>)}

DecodePieces == {LinePiece(t) : t \in BadLines} \cup {RecordPiece(x) : x \in BadRecords}

CompPieces ==
  {TextPiece(t) : t \in Texts} \cup {SpanPiece(t) : t \in SpanInteriors}
    \cup {TailPiece(t) : t \in TailTexts}
    \cup {FramePiece(m) : m \in {MsgRequest, MsgResult, MsgError}}

Compositions == UNION {[1..n -> CompPieces] : n \in 1..MaxPieces}

PieceText(p) == IF p.kind \in {"frame", "record"} THEN encodeMessage(p.arg) ELSE p.arg.v

RECURSIVE Concat(_)
Concat(ts) == IF ts = <<>> THEN <<>> ELSE Head(ts) \o Concat(Tail(ts))

StreamOf(ps) == Concat([i \in 1..Len(ps) |-> PieceText(ps[i])])

NoResult == [messages |-> <<>>, remaining |-> <<>>, nonBridgeText |-> <<>>]

CodecInit ==
  /\ \/ /\ cPieces \in Compositions
        /\ cSplit = 0
     \/ /\ \E m \in CodecMessages :
             /\ cPieces = <<FramePiece(m)>>
             /\ cSplit \in 1..(Len(encodeMessage(m)) - 1)
     \/ /\ \E p \in DecodePieces : cPieces = <<p>>
        /\ cSplit = 0
  /\ cStream = <<>>
  /\ cPhase = "drawn"
  /\ cDone = {}
  /\ cDecoded = JNull
  /\ cWhole = NoResult
  /\ cFirst = NoResult
  /\ cSecond = NoResult
  /\ cTarget = JNull
  /\ cEncoded = <<>>
  /\ ClientInit
  /\ PumpParked
  /\ DispatchParked
  /\ ToolsParked

\* The sender encodes its messages; console text is written as it is.
BuildStream ==
  /\ cPhase = "drawn"
  /\ cStream' = StreamOf(cPieces)
  /\ cPhase' = "built"
  /\ UNCHANGED <<cPieces, cSplit, cDone, cDecoded, cWhole, cFirst, cSecond, cTarget, cEncoded>>
  /\ UNCHANGED <<clvars, pvars, dvars, tvars>>

\* decodeMessage on a stream that is one frame.
DecodeFrame ==
  /\ cPhase = "built"
  /\ "decode" \notin cDone
  /\ Len(cPieces) = 1 /\ cPieces[1].kind = "frame"
  /\ cDecoded' = decodeMessage(cStream)
  /\ cDone' = cDone \cup {"decode"}
  /\ UNCHANGED <<cPieces, cSplit, cStream, cPhase, cWhole, cFirst, cSecond, cTarget, cEncoded>>
  /\ UNCHANGED <<clvars, pvars, dvars, tvars>>

\* decodeMessage on a stream that is one piece and no frame.
DecodeLine ==
  /\ cPhase = "built"
  /\ "decode" \notin cDone
  /\ Len(cPieces) = 1 /\ cPieces[1].kind # "frame"
  /\ cDecoded' = decodeMessage(cStream)
  /\ cDone' = cDone \cup {"decode"}
  /\ UNCHANGED <<cPieces, cSplit, cStream, cPhase, cWhole, cFirst, cSecond, cTarget, cEncoded>>
  /\ UNCHANGED <<clvars, pvars, dvars, tvars>>

\* MCPProtocol.decode on a stream that is one piece.
TargetDecode ==
  /\ cPhase = "built"
  /\ "target" \notin cDone
  /\ Len(cPieces) = 1 /\ cSplit = 0
  /\ cTarget' = MCPProtocol_decode(cStream)
  /\ cDone' = cDone \cup {"target"}
  /\ UNCHANGED <<cPieces, cSplit, cStream, cPhase, cDecoded, cWhole, cFirst, cSecond, cEncoded>>
  /\ UNCHANGED <<clvars, pvars, dvars, tvars>>

\* MCPProtocol.encode on the drawn message.
TargetEncode ==
  /\ cPhase = "built"
  /\ "encode" \notin cDone
  /\ Len(cPieces) = 1 /\ cPieces[1].kind = "frame" /\ cSplit = 0
  /\ cEncoded' = MCPProtocol_encode(cPieces[1].arg)
  /\ cDone' = cDone \cup {"encode"}
  /\ UNCHANGED <<cPieces, cSplit, cStream, cPhase, cDecoded, cWhole, cFirst, cSecond, cTarget>>
  /\ UNCHANGED <<clvars, pvars, dvars, tvars>>

\* extractMessages on the whole stream, in one call.
ExtractWhole ==
  /\ cPhase = "built"
  /\ "whole" \notin cDone
  /\ cWhole' = extractMessages(cStream)
  /\ cDone' = cDone \cup {"whole"}
  /\ UNCHANGED <<cPieces, cSplit, cStream, cPhase, cDecoded, cFirst, cSecond, cTarget, cEncoded>>
  /\ UNCHANGED <<clvars, pvars, dvars, tvars>>

\* extractMessages on the first cSplit characters of the stream.
ExtractFirst ==
  /\ cPhase = "built"
  /\ cSplit > 0
  /\ "first" \notin cDone
  /\ cFirst' = extractMessages(slice(cStream, 0, cSplit))
  /\ cDone' = cDone \cup {"first"}
  /\ UNCHANGED <<cPieces, cSplit, cStream, cPhase, cDecoded, cWhole, cSecond, cTarget, cEncoded>>
  /\ UNCHANGED <<clvars, pvars, dvars, tvars>>

\* extractMessages on what the first call kept, followed by the rest.
ExtractSecond ==
  /\ "first" \in cDone
  /\ "second" \notin cDone
  /\ cSecond' = extractMessages(cFirst.remaining \o slice(cStream, cSplit, Len(cStream)))
  /\ cDone' = cDone \cup {"second"}
  /\ UNCHANGED <<cPieces, cSplit, cStream, cPhase, cDecoded, cWhole, cFirst, cTarget, cEncoded>>
  /\ UNCHANGED <<clvars, pvars, dvars, tvars>>

CodecNext ==
  \/ BuildStream \/ DecodeFrame \/ DecodeLine \/ TargetDecode \/ TargetEncode
  \/ ExtractWhole \/ ExtractFirst \/ ExtractSecond

SpecCodec == CodecInit /\ [][CodecNext]_vars

\* The workbench is not used by the other specifications.
CodecParked ==
  /\ cPieces = <<>>
  /\ cSplit = 0
  /\ cStream = <<>>
  /\ cPhase = "parked"
  /\ cDone = {}
  /\ cDecoded = JNull
  /\ cWhole = NoResult
  /\ cFirst = NoResult
  /\ cSecond = NoResult
  /\ cTarget = JNull
  /\ cEncoded = <<>>

InitClient == ClientInit /\ CodecParked /\ PumpParked /\ DispatchParked /\ ToolsParked

SpecClient == InitClient /\ [][ClientNext]_vars

\* setTimeout: a timer that is armed and not cleared expires.
SpecClientFair == SpecClient /\ WF_vars(TimerFires)

InitPump == PumpInit /\ CodecParked /\ ClientInit /\ DispatchParked /\ ToolsParked

SpecPump == InitPump /\ [][PumpNext]_vars

InitDispatch == DispatchInit /\ CodecParked /\ ClientInit /\ PumpParked /\ ToolsParked

SpecDispatch == InitDispatch /\ [][DispatchNext]_vars

InitTools == ToolsInit /\ CodecParked /\ ClientInit /\ PumpParked /\ DispatchParked

SpecTools == InitTools /\ [][ToolsNext]_vars

-----------------------------------------------------------------------------
(* Claims about the correlation client (checked under SpecClient)           *)

IsResponseTo(m, n) == Get(m, K_type) = JStr(T_response) /\ Get(m, K_id) = JStr(IdText(n))

AnswersIn(messages, n) == {i \in 1..Len(messages) : IsResponseTo(messages[i], n)}

SameEntry(n) ==
  /\ calls'[n] = calls[n]
  /\ timers'[n] = timers[n]
  /\ (n \in pendingRequests') = (n \in pendingRequests)

\* C1: a pending call is settled by a response only if that response carries
\* the id of the call, and then with the payload of that response; a handled
\* response for the id of a pending call settles that call; the calls whose id
\* no handled response carries keep their entry, their timer and their promise.
C1_CorrelationById ==
  [][\A n \in CallIds :
       /\ (calls[n].outcome = "pending"
             /\ calls'[n].outcome \in {"resolved", "error_response"})
            => \E i \in AnswersIn(lastHandled', n) :
                 calls'[n].outcome = "resolved"
                   => calls'[n].value = Get(lastHandled'[i], K_payload)
       /\ (n \in pendingRequests /\ AnswersIn(lastHandled', n) # {})
            => (calls'[n].outcome \in {"resolved", "error_response"}
                  /\ n \notin pendingRequests')
       /\ (lastHandled' # <<>> /\ AnswersIn(lastHandled', n) = {}) => SameEntry(n)
    ]_vars

\* Two calls are pending, and the response to the later one has arrived first.
C1_Witness ==
  \E n \in CallIds, m \in CallIds :
    /\ n < m
    /\ n \in pendingRequests /\ calls[n].outcome = "pending"
    /\ calls[m].outcome = "resolved"
    /\ Len(lastHandled) = 1 /\ IsResponseTo(lastHandled[1], m)

\* C2: when the timer of a call fires, the call fails with the timeout error,
\* its entry leaves the pending map, and every other call is left as it was;
\* a response that arrives for a call that has timed out changes nothing.
C2_Timeout ==
  [][\A n \in CallIds :
       /\ (timers[n] = "armed" /\ timers'[n] = "fired")
            => /\ calls'[n].outcome = "timed_out"
               /\ n \notin pendingRequests'
               /\ \A m \in CallIds \ {n} : SameEntry(m)
       /\ (calls[n].outcome = "timed_out"
             /\ Len(lastHandled') = 1 /\ IsResponseTo(lastHandled'[1], n))
            => UNCHANGED <<pendingRequests, timers, calls, isConnected, capabilities, version,
                           eventsSeen>>
    ]_vars

\* A call has timed out, its response has just arrived, another call is pending.
C2_Witness ==
  \E n \in CallIds, m \in CallIds :
    /\ n # m
    /\ calls[n].outcome = "timed_out"
    /\ Len(lastHandled) = 1 /\ IsResponseTo(lastHandled[1], n)
    /\ m \in pendingRequests /\ calls[m].outcome = "pending"

\* C3: when the exit (or error) event of the process is handled, every pending
\* call fails with the connection-lost error of that event, its timer is
\* cancelled and the pending map is empty; a call that failed so keeps that
\* error, and its timer never fires.
C3_DisconnectSweep ==
  [][/\ \A e \in {"exit", "error"} :
          (e \in procEvents' /\ e \notin procEvents)
            => /\ pendingRequests' = {}
               /\ \A n \in pendingRequests :
                    /\ calls'[n].outcome = (IF e = "exit" THEN "process_exited"
                                            ELSE "process_error")
                    /\ timers'[n] = "cleared"
     /\ \A n \in CallIds :
          calls[n].outcome \in {"process_exited", "process_error"}
            => (calls'[n].outcome = calls[n].outcome /\ timers'[n] = "cleared")
    ]_vars

\* Two calls were pending when the process exited.
C3_Witness ==
  /\ pendingRequests = {}
  /\ \E n \in CallIds, m \in CallIds :
       /\ n # m
       /\ calls[n].outcome = "process_exited" /\ calls[m].outcome = "process_exited"
       /\ timers[n] = "cleared" /\ timers[m] = "cleared"

\* C4: a sendRequest call made while the connection is not established fails
\* with the not-connected error, and leaves the pending map, the timers and
\* the input stream of the target as they were, unless the command is
\* handshake: then an entry is created, a timer armed and the request written.
C4_NotConnectedGate ==
  [][(nextCall' = nextCall + 1 /\ ~isConnected)
       => IF calls'[nextCall].command # C_handshake
          THEN /\ calls'[nextCall].outcome = "not_connected"
               /\ UNCHANGED <<pendingRequests, timers, stdinWritten>>
          ELSE /\ calls'[nextCall].outcome = "pending"
               /\ pendingRequests' = pendingRequests \cup {nextCall}
               /\ timers'[nextCall] = "armed"
               /\ stdinWritten' = Append(stdinWritten, RequestLine[nextCall, C_handshake])
    ]_vars

\* One call was turned away, a handshake call was accepted.
C4_Witness ==
  /\ ~isConnected
  /\ \E n \in CallIds, m \in CallIds :
       /\ calls[n].outcome = "not_connected" /\ calls[n].command # C_handshake
       /\ timers[n] = "none"
       /\ calls[m].command = C_handshake /\ calls[m].outcome = "pending"
       /\ m \in pendingRequests

\* Capability names a caller may ask about: one the target reports, one it
\* does not.
CapNames == {Cap_nodes, <<"x">>}

\* The names in the capability list of a handshake payload; none where the
\* list is absent.
CapsOfResponse(payload) ==
  LET l == Get(payload, K_capabilities)
  IN  {x \in CapNames : l.t = "arr" /\ \E i \in 1..Len(l.v) : l.v[i] = JStr(x)}

\* The handshake calls that return true in this step.
NewlySucceeded == {n \in CallIds : calls'[n].returned = "true" /\ calls[n].returned # "true"}

\* C14: while no handshake has returned true, hasCapability(x) is false for
\* every x; when a handshake returns true, hasCapability(x) is from then on
\* true exactly for the names in the capability list of its response (for none
\* when the response has no list), until another handshake returns true.
C14_CapabilityGating ==
  [][/\ (\A n \in CallIds : calls[n].returned # "true")
          => \A x \in CapNames : ~hasCapability(x)
     /\ \A n \in NewlySucceeded :
          \A x \in CapNames : hasCapability(x)' <=> (x \in CapsOfResponse(calls'[n].value))
     /\ NewlySucceeded = {}
          => \A x \in CapNames : hasCapability(x)' <=> hasCapability(x)
    ]_vars

\* A handshake that reported a list has been followed by one that reported
\* none: the capabilities of the first are gone.
C14_Witness ==
  /\ calls[1].returned = "true" /\ calls[1].value = HandshakeInfo
  /\ calls[2].returned = "true" /\ calls[2].value = JObj(<<>>)
  /\ ~hasCapability(Cap_nodes)

\* C15: when the exit or the error event of the target is handled after a
\* handshake has returned true, isConnected is false and hasCapability(x) is
\* false for every x.
C15_ConnectionStateCleared ==
  [][\A e \in {"exit", "error"} :
       ( /\ e \in procEvents' /\ e \notin procEvents
         /\ \E n \in CallIds : calls[n].returned = "true" )
         => /\ ~isConnected'
            /\ \A x \in CapNames : ~hasCapability(x)'
    ]_vars

\* The responses without an error, handled in this step, to the pending
\* handshake call n.
SuccessResponses(n) ==
  IF n \in pendingRequests /\ calls[n].caller = "handshake"
  THEN {i \in AnswersIn(lastHandled', n) : ~Truthy(Get(lastHandled'[i], K_error))}
  ELSE {}

\* The same, of those that carry a payload.
SuccessResponsesWithPayload(n) ==
  {i \in SuccessResponses(n) : Get(lastHandled'[i], K_payload).t \notin {"null", "undef"}}

HandshakeReturns(n, value) == calls[n].returned = "none" /\ calls'[n].returned = value

\* A handshake call returns when its request settles, and returns true or false.
HandshakeNeverRaises(n) ==
  /\ calls'[n].returned \in {"none", "true", "false"}
  /\ (calls[n].outcome = "pending" /\ calls'[n].outcome # "pending")
       => calls'[n].returned \in {"true", "false"}

IsEvent(m) == Get(m, K_type) = JStr(T_event)

\* The pending call n is settled by the response msg and its entry removed.
SettledBy(n, msg) ==
  LET err == Get(msg, K_error)
  IN  /\ n \notin pendingRequests'
      /\ timers'[n] = "cleared"
      /\ IF HasKey(msg, K_error) /\ err.t = "obj"
         THEN /\ calls'[n].outcome = "error_response"
              /\ calls'[n].value
                   = JStr(Get(err, K_code).v \o <<":", " ">> \o Get(err, K_message).v)
         ELSE /\ calls'[n].outcome = "resolved"
              /\ calls'[n].value = Get(msg, K_payload)

\* C17: in a step that handles messages, a response whose id is pending
\* settles that entry (resolved with its payload, or rejected with its code
\* and message) and removes it; every other entry stays as it was, so events,
\* responses with an unknown id and request-kind messages settle nothing, even
\* when they carry a pending id; the events, and only they, reach the event
\* observer.
C17_MessageRouting ==
  [][lastHandled' # <<>> =>
       /\ \A n \in CallIds :
            IF n \in pendingRequests /\ AnswersIn(lastHandled', n) # {}
            THEN \A i \in AnswersIn(lastHandled', n) : SettledBy(n, lastHandled'[i])
            ELSE SameEntry(n)
       /\ pendingRequests' \subseteq pendingRequests
       /\ eventsSeen' = (IF listening THEN eventsSeen \o SelectSeq(lastHandled', IsEvent)
                         ELSE eventsSeen)
    ]_vars

\* An event, a response with an unknown id and a request-kind message, the
\* event and the request carrying the id of call 1, were handled while call 1
\* was pending: it still is, and the event reached the observer.
C17_Witness ==
  /\ Len(lastHandled) = 3
  /\ IsEvent(lastHandled[1]) /\ Get(lastHandled[1], K_id) = JStr(IdText(1))
  /\ Get(lastHandled[3], K_type) = JStr(T_request)
  /\ 1 \in pendingRequests /\ calls[1].outcome = "pending" /\ timers[1] = "armed"
  /\ eventsSeen # <<>>

\* The ways a request that passed the gate can be settled: with the payload
\* of its response, with the error of its response, by its timer, or by the
\* sweep of an exit event, an error event or destroy().
SettledOutcomes ==
  {"resolved", "error_response", "timed_out", "process_exited", "process_error", "destroyed"}

PendingIffUnsettledAndArmed ==
  \A n \in CallIds :
    /\ n \in pendingRequests <=> calls[n].outcome = "pending"
    /\ n \in pendingRequests <=> timers[n] = "armed"

SettledOnce ==
  \A n \in CallIds :
    /\ calls[n].outcome = "pending" => calls'[n].outcome \in {"pending"} \cup SettledOutcomes
    /\ calls[n].outcome \in SettledOutcomes => calls'[n] = calls[n]

\* C34: a sendRequest call that passed the gate is settled exactly once and
\* eventually, with a payload, a response error, a timeout or a
\* connection-lost or destroyed error; a settled call keeps its outcome under
\* every later step; and an id is in the pending set exactly when its call is
\* unsettled and its timer is armed.
C34_SettledOnceEventually ==
  /\ []PendingIffUnsettledAndArmed
  /\ [][SettledOnce]_vars
  /\ \A n \in CallIds : (calls[n].outcome = "pending") ~> (calls[n].outcome \in SettledOutcomes)

\* Both calls passed the gate; the first was swept by destroy() with its timer
\* cleared, the second was answered later, and nothing is pending.
C34_Witness ==
  /\ calls[1].outcome = "destroyed"
  /\ calls[2].outcome = "resolved"
  /\ timers[1] = "cleared"
  /\ pendingRequests = {}

\* A sendRequest call for a command other than handshake is made in this step
\* and turned away at once: nothing pending, no timer, nothing written.
TurnedAwayIfDirect ==
  (nextCall' = nextCall + 1 /\ calls'[nextCall].command # C_handshake)
    => /\ calls'[nextCall].outcome = "not_connected"
       /\ UNCHANGED <<pendingRequests, timers, stdinWritten>>

\* C35 as stated: once the exit event or the error event has been handled,
\* isConnected is false and stays false under every later sendRequest call,
\* handshake call, timer expiry and output chunk, and every later sendRequest
\* for another command than handshake fails at once with the not-connected
\* error.
C35_StaysDisconnected ==
  /\ [](procEvents # {} => ~isConnected)
  /\ [][procEvents # {} => TurnedAwayIfDirect]_vars

\* C35, amended: the step that handles the exit or the error event leaves
\* isConnected false; after the exit event it stays false under every later
\* step, and every later sendRequest for another command than handshake is
\* turned away at once; after an error event alone it stays false until a
\* handshake call made to the target, which may still run, returns true, and
\* while it is false every sendRequest for another command is turned away.
C35_DisconnectedAfterExit ==
  /\ [][procEvents' # procEvents => ~isConnected']_vars
  /\ []("exit" \in procEvents => ~isConnected)
  /\ [][("exit" \in procEvents \/ ~isConnected) => TurnedAwayIfDirect]_vars
  /\ [][(procEvents # {} /\ ~isConnected /\ isConnected')
          => \E n \in CallIds : /\ calls[n].caller = "handshake"
                                /\ calls[n].returned = "none"
                                /\ calls'[n].returned = "true"]_vars

\* The exit event was handled before any call; a handshake call made after it
\* was written to the dead target and timed out without any output having
\* arrived, and a later call for another command was turned away.
C35_Witness ==
  /\ "exit" \in procEvents
  /\ chunksLeft = MaxChunks
  /\ answerable = {}
  /\ calls[1].caller = "handshake"
  /\ calls[1].outcome = "timed_out"
  /\ calls[1].returned = "false"
  /\ calls[2].command # C_handshake
  /\ calls[2].outcome = "not_connected"
  /\ ~isConnected

-----------------------------------------------------------------------------
(* Claims about the delivery pump and the dispatcher (checked under SpecPump) *)

\* The printed lines that the controller decodes to a response carrying id.
ResponseLinesFor(id) ==
  {i \in 1..Len(stdoutLines) :
     LET m == decodeMessage(stdoutLines[i])
     IN  Get(m, K_type) = JStr(T_response) /\ Get(m, K_id) = JStr(id)}

AwaitingIds == {Get(awaiting[i], K_id).v : i \in 1..Len(awaiting)}

\* C5: for every request the pump has dispatched, never two response lines
\* carry its id, and once its handler has finished exactly one does.
C5_ExactlyOneResponse ==
  \A i \in 1..Len(dispatched) :
    Get(dispatched[i], K_type) = JStr(T_request)
      => LET id == Get(dispatched[i], K_id).v
             n == Cardinality(ResponseLinesFor(id))
         IN  n <= 1 /\ (id \notin AwaitingIds => n = 1)

\* C18: a command handler starts only in the drain step of a tick and while
\* no other handler is suspended; a suspended handler goes on only inside the
\* drain step of a tick; never more than one handler is under way.
C18_HandlersSerialInTick ==
  [][/\ Len(dispatched') > Len(dispatched) => (mainPc = "each" /\ awaiting = <<>>)
     /\ returnedToNobody' # returnedToNobody => mainPc = "each"
     /\ Len(awaiting') <= 1
    ]_vars

\* The messages that wait for their dispatch: in the queue, or in the copy
\* the drain step iterates over (between copy and clear they are in both).
Undispatched == IF mainPc = "clear" THEN drained ELSE drained \o message_queue

\* C19: under every interleaving of the reader and the main thread, the
\* messages the reader has appended are, in the order of their appends, the
\* messages dispatched so far followed by those that wait for their dispatch:
\* none is lost by the clear, none is dispatched twice; the reader appends
\* only while it holds the mutex, the main thread copies and clears only
\* while it holds it.
C19_DispatchedExactlyOnce ==
  /\ appended = dispatched \o Undispatched
  /\ mainPc = "clear" => message_queue = drained
  /\ readerPc \in {"append", "unlock"} => queue_mutex = "reader"
  /\ mainPc \in {"duplicate", "clear", "unlock"} => queue_mutex = "main"

\* The reader has appended a second message while the main thread was
\* dispatching the first.
C19_Witness ==
  /\ Len(appended) = 2 /\ Len(dispatched) = 1
  /\ message_queue = <<appended[2]>>
  /\ drained = <<>>
  /\ dispatched[1] = appended[1]

\* C20: when the host was started without the launch flag, no reader thread
\* is started, no line is taken from the input stream, no message is queued
\* or dispatched and nothing is written to the output stream.
C20_ActivationGate ==
  ~launch.flag =>
    /\ ~running /\ readerPc = "off" /\ queue_mutex = "none"
    /\ Len(stdinPipe) = written
    /\ appended = <<>> /\ message_queue = <<>> /\ dispatched = <<>>
    /\ awaiting = <<>> /\ returnedToNobody = <<>>
    /\ stdoutLines = <<>>

\* A debug build started without the flag has gone through _ready and has
\* been sent two lines.
C20_Witness ==
  /\ launch = [debug |-> TRUE, flag |-> FALSE]
  /\ mainPc = "idle"
  /\ written = MaxRequests /\ Len(stdinPipe) = MaxRequests

\* The printed line is a response with an error field.
IsErrorLine(line) == HasKey(decodeMessage(line), K_error)

\* The handler of the command returns its dictionary without suspending.
AnswersAtOnce(msg) == Get(msg, K_command) # JStr(C_screenshot)

ErrorAnswered(i) ==
  \E k \in ResponseLinesFor(Get(dispatched[i], K_id).v) : IsErrorLine(stdoutLines[k])

ScreenshotStepOrder ==
  /\ (/\ Len(dispatched') > Len(dispatched)
      /\ Get(dispatched'[Len(dispatched')], K_command) = JStr(C_screenshot))
       => /\ returnedToNobody' = returnedToNobody
          /\ stdoutLines' = stdoutLines
          /\ Len(awaiting') = Len(awaiting) + 1
          /\ Get(awaiting'[Len(awaiting')], K_id) = Get(dispatched'[Len(dispatched')], K_id)
  /\ returnedToNobody' # returnedToNobody
       => /\ dispatched' = dispatched
          /\ awaiting # <<>> /\ awaiting' = <<>>
          /\ Len(returnedToNobody') = Len(returnedToNobody) + Len(awaiting)
          /\ \A i \in 1..Len(awaiting) :
               Get(returnedToNobody'[Len(returnedToNobody) + i], K_id) = Get(awaiting[i], K_id)

\* C32: the step that dispatches a screenshot request samples nothing and
\* produces no response: it leaves the handler suspended; the handler's
\* response, made from what the view holds, is produced only by a later
\* post-render step, and only for requests dispatched and suspended before.
C32_ScreenshotAfterFrame ==
  /\ [][ScreenshotStepOrder]_vars
  /\ [](\A i \in 1..Len(returnedToNobody) :
          \E j \in 1..Len(dispatched) :
            /\ Get(dispatched[j], K_command) = JStr(C_screenshot)
            /\ Get(dispatched[j], K_id) = Get(returnedToNobody[i], K_id))

\* A screenshot request was dispatched, the frame was drawn, and the handler
\* has made its response from the image of the view.
C32_Witness ==
  /\ Len(dispatched) = 1
  /\ Get(dispatched[1], K_command) = JStr(C_screenshot)
  /\ awaiting = <<>>
  /\ Len(returnedToNobody) = 1
  /\ Get(returnedToNobody[1], K_id) = Get(dispatched[1], K_id)
  /\ Get(returnedToNobody[1], K_payload) = ScreenshotData

\* The place of a message in the order the controller wrote the lines, which
\* is the order the reader reads them in.
LineIndex(m) == CHOOSE k \in 1..MaxRequests : JStr(IdText(k)) = Get(m, K_id)
InReadOrder(ms) == \A i, j \in 1..Len(ms) : i < j => LineIndex(ms[i]) < LineIndex(ms[j])
IsFrameLine(l) == MCPProtocol_decode(l) # JNull
DoesNotSuspend(m) == Get(m, K_command) # JStr(C_screenshot)
SameIds(lines, ms) ==
  /\ Len(lines) = Len(ms)
  /\ \A i \in 1..Len(ms) : Get(MCPProtocol_decode(lines[i]), K_id) = Get(ms[i], K_id)

\* C36: the queue is first-in first-out across the two threads: the messages
\* are appended in the order their lines were read, they are dispatched in
\* that order within a batch and from one tick to the next, and the response
\* lines of the handlers that do not suspend are printed in that order.
C36_QueueFifo ==
  /\ InReadOrder(appended)
  /\ dispatched = SubSeq(appended, 1, Len(dispatched))
  /\ SameIds(SelectSeq(stdoutLines, IsFrameLine), SelectSeq(dispatched, DoesNotSuspend))

\* Two messages were read, dispatched and answered, the first before the second.
C36_Witness ==
  /\ Len(dispatched) = 2
  /\ LineIndex(dispatched[1]) = 1
  /\ LineIndex(dispatched[2]) = 2
  /\ Len(SelectSeq(stdoutLines, IsFrameLine)) = 2
  /\ Get(MCPProtocol_decode(stdoutLines[Len(stdoutLines)]), K_id) = JStr(IdText(2))

ReaderInSection == readerPc \in {"append", "unlock"}
MainInSection == mainPc \in {"duplicate", "clear", "unlock"}

MutexDiscipline ==
  /\ ~(ReaderInSection /\ MainInSection)
  /\ ReaderInSection <=> queue_mutex = "reader"
  /\ MainInSection <=> queue_mutex = "main"
  /\ readerPc = "read" => queue_mutex # "reader"
  /\ mainPc = "each" => queue_mutex # "main"

QueueUnderMutex ==
  /\ message_queue' # message_queue
       => \/ queue_mutex = "reader" /\ queue_mutex' = "reader" /\ readerPc = "append"
          \/ queue_mutex = "main" /\ queue_mutex' = "main" /\ mainPc = "clear"
  /\ drained' # drained /\ Len(drained') >= Len(drained)
       => queue_mutex = "main" /\ queue_mutex' = "main" /\ drained' = message_queue
  /\ dispatched' # dispatched => queue_mutex # "main"
  /\ stdinPipe' # stdinPipe /\ written' = written => queue_mutex # "reader"

\* C37: the reader and the main thread are never both inside a critical
\* section of the queue; the queue is read and written only by the thread
\* that holds the mutex; the reader does not hold it while it reads a line,
\* and the main thread does not hold it while a handler runs, so the mutex is
\* held for one append or for one copy and clear only.
C37_MutualExclusion == []MutexDiscipline /\ [][QueueUnderMutex]_vars

\* The reader has a message to append and waits for the mutex, which the main
\* thread holds between its copy and its clear of a queue that is not empty.
C37_Witness ==
  /\ readerPc = "lock"
  /\ queue_mutex = "main"
  /\ mainPc = "clear"
  /\ message_queue # <<>>

IsRequest(m) == Get(m, K_type) = JStr(T_request)
LinesRead == written - Len(stdinPipe)

\* A step of the reader that takes a line which is no frame.
ReadsUndecodable ==
  /\ Len(stdinPipe') < Len(stdinPipe)
  /\ ~IsFrameLine(strip_edges(Head(stdinPipe)))

OnlyRequestsQueued ==
  /\ \A i \in 1..Len(appended) : IsRequest(appended[i])
  /\ \A i \in 1..Len(dispatched) : IsRequest(dispatched[i])
  /\ Len(SelectSeq(stdoutLines, IsFrameLine)) + Len(awaiting) + Len(returnedToNobody)
       <= Len(SelectSeq(dispatched, IsRequest))

\* C38: only messages of kind request are put into the queue and dispatched:
\* a well-framed message of kind response or event is not given to a handler
\* and gets no response; a line that does not decode is not put into the
\* queue, and the reader goes on to the next line.
C38_OnlyRequestsDispatched ==
  /\ []OnlyRequestsQueued
  /\ [][ReadsUndecodable => /\ readerPc' = "check"
                            /\ readerMsg' = JNull
                            /\ UNCHANGED <<message_queue, appended>>]_vars

Exited == mainPc \in {"join", "gone"}

\* C39: after _exit_tree has cleared the flag the main thread dispatches no
\* message; the reader finishes at most one more line read and appends at
\* most one more message before its loop ends; _exit_tree returns only when
\* the reader has ended, and so not while the reader is in a line read.
C39_Shutdown ==
  /\ [][Exited => dispatched' = dispatched]_vars
  /\ \A n \in 0..MaxRequests :
       /\ []((Exited /\ LinesRead = n) => [](LinesRead <= n + 1))
       /\ []((Exited /\ Len(appended) = n) => [](Len(appended) <= n + 1))
  /\ [](Exited => ~running)
  /\ []((Exited /\ readerPc = "done") => [](readerPc = "done"))
  /\ [](mainPc = "gone" => readerPc \in {"off", "done"})
  /\ [][(mainPc = "join" /\ readerPc # "done") => mainPc' = "join"]_vars

\* The flag was cleared while the reader was in a line read with the queue
\* empty; the reader then read one more line, appended its message and left
\* its loop with a line still unread, and _exit_tree has returned; the
\* message stays in the queue.
C39_Witness ==
  /\ mainPc = "gone"
  /\ readerPc = "done"
  /\ Len(appended) = 1
  /\ message_queue = appended
  /\ dispatched = <<>>
  /\ stdinPipe # <<>>

-----------------------------------------------------------------------------
(* Claims about the command dispatcher (checked under SpecDispatch)         *)

CommandCatalog ==
  {C_handshake, C_screenshot, C_get_scene_tree, C_get_node, C_set_property,
   C_call_method, C_change_scene, C_input_action, C_input_key,
   C_input_mouse_button, C_input_mouse_motion}

\* The last request and what was returned for it.
LastCommand == Get(dMsg, K_command).v
LastPayload == GetOr(dMsg, K_payload, JObj(<<>>))
Asked(command) == dMsg # JNull /\ LastCommand = command
Returned == dResult.kind = "dictionary"
ReturnedError(code) ==
  /\ Returned
  /\ HasKey(dResult.v, K_error)
  /\ Get(Get(dResult.v, K_error), K_code) = JStr(code)
ReturnedSuccess == Returned /\ ~HasKey(dResult.v, K_error)

\* C22: a request whose command is not in the catalog is answered, for every
\* payload and every host, with a dictionary that is an error response with
\* code UNKNOWN_COMMAND and the id of the request.
C22_UnknownCommand ==
  (dMsg # JNull /\ LastCommand \notin CommandCatalog)
    => /\ ReturnedError(E_UNKNOWN_COMMAND)
       /\ Get(dResult.v, K_type) = JStr(T_response)
       /\ Get(dResult.v, K_id) = Get(dMsg, K_id)

\* A command that differs from one of the catalog by a trailing blank, with
\* a payload that is no mapping, has been answered.
C22_Witness ==
  /\ Asked(<<"g", "e", "t", "_", "n", "o", "d", "e", " ">>)
  /\ LastPayload = JNum(1)
  /\ ReturnedError(E_UNKNOWN_COMMAND)

\* C23: a handshake request is answered, for every payload and every host,
\* with a success response whose payload is the fixed version and the fixed
\* capability list.
C23_HandshakeAlwaysSucceeds ==
  Asked(C_handshake)
    => /\ ReturnedSuccess
       /\ Get(dResult.v, K_id) = Get(dMsg, K_id)
       /\ Get(dResult.v, K_payload)
            = JObj(<< <<K_version, JStr(VERSION)>>, <<K_capabilities, CAPABILITIES>> >>)

\* The second request is a handshake with a payload that is no mapping, on a
\* host without a current scene.
C23_Witness ==
  /\ Asked(C_handshake)
  /\ dCalls = 2
  /\ LastPayload = JNull
  /\ dHost.scene = "none"
  /\ ReturnedSuccess

IsSuccessShape(m) ==
  /\ ~HasKey(m, K_error)
  /\ HasKey(m, K_payload)
  /\ Get(m, K_payload) # JNull

IsFailureShape(m) ==
  /\ HasKey(m, K_error)
  /\ Get(Get(m, K_error), K_code).t = "str"
  /\ Get(Get(m, K_error), K_message).t = "str"
  /\ GetOr(m, K_payload, JNull) = JNull

\* C24: every dictionary the dispatcher returns has type response, the id
\* and the command of the request, and is either a success (a payload, no
\* error field) or a failure (an error field with code and message, no
\* payload value), never both.
C24_ResponseShape ==
  Returned
    => /\ Get(dResult.v, K_type) = JStr(T_response)
       /\ Get(dResult.v, K_id) = Get(dMsg, K_id)
       /\ Get(dResult.v, K_command) = Get(dMsg, K_command)
       /\ IsSuccessShape(dResult.v) # IsFailureShape(dResult.v)

\* A failure of a handler behind the match has been returned after a success.
C24_Witness ==
  /\ dCalls = 2
  /\ Asked(C_call_method)
  /\ ReturnedError(E_METHOD_NOT_FOUND)
  /\ IsFailureShape(dResult.v)
  /\ dHost.events # <<>>

\* The request fields the command table of the bridge gives without a
\* question mark.
RequiredFields(command) ==
  CASE command = C_get_node -> {K_path}
    [] command = C_set_property -> {K_path, K_property, K_value}
    [] command = C_call_method -> {K_path, K_method}
    [] command = C_change_scene -> {K_scenePath}
    [] command = C_input_action -> {K_action}
    [] command = C_input_key -> {K_keycode}
    [] command = C_input_mouse_button -> {K_button, K_position}
    [] command = C_input_mouse_motion -> {K_relative}
    [] OTHER -> {}

\* The payload of the request is no mapping or lacks a required field.
LacksRequired(msg) ==
  LET payload == GetOr(msg, K_payload, JObj(<<>>))
  IN  /\ RequiredFields(Get(msg, K_command).v) # {}
      /\ \/ payload.t # "obj"
         \/ \E k \in RequiredFields(Get(msg, K_command).v) : ~HasKey(payload, k)

\* C25: the dispatch of a request whose payload is no mapping or lacks a
\* required field returns an error response with code INVALID_PARAMS and
\* leaves the host as it was.
C25_InvalidParams ==
  [][(dCalls' = dCalls + 1 /\ LacksRequired(dMsg'))
       => /\ dResult'.kind = "dictionary"
          /\ HasKey(dResult'.v, K_error)
          /\ Get(Get(dResult'.v, K_error), K_code) = JStr(E_INVALID_PARAMS)
          /\ dHost' = dHost
    ]_vars

\* What a step that dispatches msg on host h gave: the result res and the
\* host h2.
GaveError(res, code) ==
  /\ res.kind = "dictionary"
  /\ HasKey(res.v, K_error)
  /\ Get(Get(res.v, K_error), K_code) = JStr(code)
GaveSuccess(res) == res.kind = "dictionary" /\ ~HasKey(res.v, K_error)

TextField(msg, k) == GetOr(GetOr(msg, K_payload, JObj(<<>>)), k, JStr(<<>>))

\* The request addresses a node and names a member of it: its payload is a
\* mapping whose path and member are strings, and its args, if any, an array.
Addresses(msg, command, member) ==
  /\ Get(msg, K_command) = JStr(command)
  /\ GetOr(msg, K_payload, JObj(<<>>)).t = "obj"
  /\ TextField(msg, K_path).t = "str"
  /\ TextField(msg, member).t = "str"
  /\ GetOr(GetOr(msg, K_payload, JObj(<<>>)), K_args, JArr(<<>>)).t = "arr"

\* The checks of set_property in their order, and the only change it makes.
SetPropertyOutcome(h, msg, res, h2, node) ==
  CASE TextField(msg, K_path).v = <<>> \/ TextField(msg, K_property).v = <<>> ->
         GaveError(res, E_INVALID_PARAMS) /\ h2 = h
    [] node = "null" -> GaveError(res, E_NODE_NOT_FOUND) /\ h2 = h
    [] ~HasProperty(h, node, TextField(msg, K_property).v) ->
         GaveError(res, E_PROPERTY_NOT_FOUND) /\ h2 = h
    [] OTHER ->
         /\ GaveSuccess(res)
         /\ h2 = SetProperty(h, node, TextField(msg, K_property).v,
                             GetOr(GetOr(msg, K_payload, JObj(<<>>)), K_value, JNull))

\* The checks of call_method in their order; only the last case invokes.
CallMethodOutcome(h, msg, res, h2, node) ==
  CASE TextField(msg, K_path).v = <<>> \/ TextField(msg, K_method).v = <<>> ->
         GaveError(res, E_INVALID_PARAMS) /\ h2 = h
    [] node = "null" -> GaveError(res, E_NODE_NOT_FOUND) /\ h2 = h
    [] ~HasMethod(node, TextField(msg, K_method).v) ->
         GaveError(res, E_METHOD_NOT_FOUND) /\ h2 = h
    [] OTHER ->
         /\ GaveSuccess(res)
         /\ HasKey(Get(res.v, K_payload), K_result)
         /\ h2 = callv(h, node, TextField(msg, K_method).v,
                       GetOr(GetOr(msg, K_payload, JObj(<<>>)), K_args, JArr(<<>>)).v).host

\* C26: set_property and call_method apply their checks in the order
\* parameters, node, property or method; an unresolved path gives
\* NODE_NOT_FOUND, a missing property PROPERTY_NOT_FOUND, a missing method
\* METHOD_NOT_FOUND; and whenever either command does not return a success
\* the host is as it was: no property set, no method invoked.
C26_ChecksBeforeEffects ==
  [][dCalls' = dCalls + 1
       => /\ Addresses(dMsg', C_set_property, K_property)
               => SetPropertyOutcome(dHost, dMsg', dResult', dHost',
                                     _get_node_by_path(dHost, TextField(dMsg', K_path).v))
          /\ Addresses(dMsg', C_call_method, K_method)
               => CallMethodOutcome(dHost, dMsg', dResult', dHost',
                                    _get_node_by_path(dHost, TextField(dMsg', K_path).v))
          /\ (Get(dMsg', K_command) \in {JStr(C_set_property), JStr(C_call_method)}
               /\ ~GaveSuccess(dResult'))
               => dHost' = dHost
    ]_vars

\* A request naming a node and a property that both do not exist has been
\* answered with the error of the node, and nothing was set.
C26_Witness ==
  /\ Asked(C_set_property)
  /\ TextField(dMsg, K_path) = JStr(P_ghost)
  /\ TextField(dMsg, K_property) = JStr(N_ghost)
  /\ ReturnedError(E_NODE_NOT_FOUND)
  /\ dHost = HostOf("Main")

\* The request is an input_action request the handler takes apart without
\* a script error and that names an action.
NamesAction(msg) ==
  /\ Get(msg, K_command) = JStr(C_input_action)
  /\ GetOr(msg, K_payload, JObj(<<>>)).t = "obj"
  /\ TextField(msg, K_action).t = "str" /\ TextField(msg, K_action).v # <<>>
  /\ GetOr(GetOr(msg, K_payload, JObj(<<>>)), K_pressed, JTrue).t = "bool"
  /\ GetOr(GetOr(msg, K_payload, JObj(<<>>)), K_strength, JNum(1)).t = "num"

InputActionOutcome(h, payload, res, h2) ==
  IF Get(payload, K_action).v \notin InputMapActions
  THEN GaveError(res, E_ACTION_NOT_FOUND) /\ h2 = h
  ELSE /\ GaveSuccess(res)
       /\ Get(Get(res.v, K_payload), K_success) = JTrue
       /\ h2 = [h EXCEPT !.events =
                  Append(h.events,
                         IF GetOr(payload, K_pressed, JTrue) = JTrue
                         THEN InputEvent("action_press", Get(payload, K_action).v, 0, TRUE,
                                         GetOr(payload, K_strength, JNum(1)).v,
                                         NoVector, NoVector, {})
                         ELSE InputEvent("action_release", Get(payload, K_action).v, 0, FALSE,
                                         0, NoVector, NoVector, {}))]

\* C27: input_action for an action that is not in the input map returns
\* ACTION_NOT_FOUND and injects nothing; for an action of the input map it
\* presses the action with the given strength, or releases it, as pressed
\* says, does nothing else to the host, and returns success.
C27_InputAction ==
  [][(dCalls' = dCalls + 1 /\ NamesAction(dMsg'))
       => InputActionOutcome(dHost, Get(dMsg', K_payload), dResult', dHost')
    ]_vars

\* The registered action has been released after an unregistered one was
\* refused.
C27_Witness ==
  /\ Asked(C_input_action)
  /\ dCalls = 2
  /\ TextField(dMsg, K_action) = JStr(A_jump)
  /\ Get(LastPayload, K_pressed) = JFalse
  /\ ReturnedSuccess
  /\ Len(dHost.events) = 1
  /\ dHost.events[1].kind = "action_release"

\* The request is a change_scene request with a scene path.
NamesScene(msg) ==
  /\ Get(msg, K_command) = JStr(C_change_scene)
  /\ TextField(msg, K_scenePath).t = "str"
  /\ HasKey(GetOr(msg, K_payload, JObj(<<>>)), K_scenePath)

Replacements(h, h2) == SubSeq(h2.changes, Len(h.changes) + 1, Len(h2.changes))

\* C28: change_scene for a scene resource that does not exist returns
\* SCENE_NOT_FOUND and asks for no replacement; it returns success only when
\* the replacement it asked for reported success (error 0), and it returns
\* CHANGE_FAILED when the replacement reported a failure.
C28_ChangeScene ==
  [][(dCalls' = dCalls + 1 /\ NamesScene(dMsg'))
       => /\ TextField(dMsg', K_scenePath).v \notin ExistingResources
               => GaveError(dResult', E_SCENE_NOT_FOUND) /\ dHost' = dHost
          /\ GaveSuccess(dResult')
               => Replacements(dHost, dHost') = << <<TextField(dMsg', K_scenePath).v, 0>> >>
          /\ (Replacements(dHost, dHost') # <<>> /\ Replacements(dHost, dHost')[1][2] # 0)
               => GaveError(dResult', E_CHANGE_FAILED)
          /\ Len(Replacements(dHost, dHost')) <= 1
    ]_vars

\* A resource that exists and is no scene was asked for: the replacement
\* failed and the scene is still current.
C28_Witness ==
  /\ Asked(C_change_scene)
  /\ TextField(dMsg, K_scenePath) = JStr(R_icon)
  /\ ReturnedError(E_CHANGE_FAILED)
  /\ dHost.changes = << <<R_icon, 19>> >>
  /\ dHost.scene = "Main"

\* The path has the leading root marker: it names the root, or a node below
\* it.
HasRootMarker(path) == path = RootMarker \/ startsWith(path, RootMarker \o <<"/">>)

\* The node a path stands for: with the root marker, the node the absolute
\* path leads to from the application root; otherwise the node the path
\* leads to from the current scene, and none while there is no scene.
NodeAt(h, path) ==
  IF HasRootMarker(path) THEN WalkNames(h, PathNames(path, <<>>, <<>>), "null")
  ELSE IF h.scene = "none" THEN "null"
  ELSE get_node_or_null(h, h.scene, path)

\* The request addresses a node by a path that is not empty.
AddressesNode(msg) ==
  /\ \/ Addresses(msg, C_get_node, K_path)
     \/ Addresses(msg, C_set_property, K_property) /\ TextField(msg, K_property).v # <<>>
     \/ Addresses(msg, C_call_method, K_method) /\ TextField(msg, K_method).v # <<>>
  /\ TextField(msg, K_path).v # <<>>

\* C29: get_node, set_property and call_method return a dictionary for every
\* path, and return NODE_NOT_FOUND exactly when the path stands for no node:
\* a path with the root marker is resolved from the application root, every
\* other path from the current scene, and not at all without a scene.
C29_PathResolution ==
  [][(dCalls' = dCalls + 1 /\ AddressesNode(dMsg'))
       => /\ dResult'.kind = "dictionary"
          /\ GaveError(dResult', E_NODE_NOT_FOUND)
               <=> NodeAt(dHost, TextField(dMsg', K_path).v) = "null"
    ]_vars

\* The allow-listed value shapes: primitives, vectors, colors, rects,
\* arrays and mappings.  Of these the host's values have the first two
\* and the last two.
AllowListedShapes == {"null", "bool", "num", "str", "vector2", "arr", "obj"}

\* The members the properties map of node n has to have on host h.
ExpectedProperties(h, n) ==
  {<<h.props[n][i].name, h.props[n][i].value>> :
     i \in {k \in 1..Len(h.props[n]) :
              h.props[n][k].editor /\ h.props[n][k].value.t \in AllowListedShapes}}

MembersOf(o) == {o.v[i] : i \in 1..Len(o.v)}

NodeWithPath(path) == CHOOSE n \in Nodes : NodePathOf(n) = path

\* The serialized node, and every serialized child of it, has the expected
\* properties map.
RECURSIVE PropertiesExact(_, _)
PropertiesExact(h, node) ==
  /\ \E n \in Nodes : JStr(NodePathOf(n)) = Get(node, K_path)
  /\ MembersOf(Get(node, K_properties))
       = ExpectedProperties(h, NodeWithPath(Get(node, K_path).v))
  /\ Len(Get(node, K_properties).v) = Cardinality(MembersOf(Get(node, K_properties)))
  /\ HasKey(node, K_children)
       => \A i \in 1..Len(Get(node, K_children).v) :
            PropertiesExact(h, Get(node, K_children).v[i])

\* C30: get_node for a path the handler resolves, and get_scene_tree while
\* a scene is current, return a success whatever the values of the
\* properties are, and the properties map of every serialized node holds an
\* editor-visible property exactly when its value has an allow-listed shape.
C30_SerializableProperties ==
  [][dCalls' = dCalls + 1
       => /\ (/\ Addresses(dMsg', C_get_node, K_path)
               /\ HasKey(Get(dMsg', K_payload), K_path)
               /\ _get_node_by_path(dHost, TextField(dMsg', K_path).v) # "null")
               => /\ GaveSuccess(dResult')
                  /\ Get(Get(Get(dResult'.v, K_payload), K_node), K_path)
                       = JStr(NodePathOf(_get_node_by_path(dHost, TextField(dMsg', K_path).v)))
                  /\ PropertiesExact(dHost, Get(Get(dResult'.v, K_payload), K_node))
          /\ (Get(dMsg', K_command) = JStr(C_get_scene_tree) /\ dHost.scene # "none")
               => /\ GaveSuccess(dResult')
                  /\ PropertiesExact(dHost, Get(Get(dResult'.v, K_payload), K_root))
          /\ (Get(dMsg', K_command) \in {JStr(C_get_node), JStr(C_get_scene_tree)})
               => dHost' = dHost
    ]_vars

\* The node with a texture, a transform and a hidden variable has been
\* serialized after its health was set: the map has the visible flag, the
\* position and the new health, and none of the other three.
C30_Witness ==
  /\ Asked(C_get_node)
  /\ dCalls = 2
  /\ ReturnedSuccess
  /\ LET properties == Get(Get(Get(dResult.v, K_payload), K_node), K_properties)
     IN  /\ Get(properties, N_health) = JNum(5)
         /\ Get(properties, <<"p", "o", "s", "i", "t", "i", "o", "n">>) = Vector2(0, 0)
         /\ ~HasKey(properties, <<"t", "e", "x", "t", "u", "r", "e">>)
         /\ ~HasKey(properties, <<"t", "r", "a", "n", "s", "f", "o", "r", "m">>)
         /\ ~HasKey(properties, <<"s", "e", "c", "r", "e", "t">>)

KeysOf(o) == {o.v[i][1] : i \in 1..Len(o.v)}

\* The serialized node is node n of host h: name, type (its class), path and
\* a properties map.
IsNodeInfo(h, node, n) ==
  /\ node.t = "obj"
  /\ {K_name, K_type, K_path, K_properties} \subseteq KeysOf(node)
  /\ KeysOf(node) \subseteq {K_name, K_type, K_path, K_properties, K_children}
  /\ Get(node, K_name) = JStr(NodeName[n])
  /\ Get(node, K_type) = JStr(NodeClass[n])
  /\ Get(node, K_path) = JStr(NodePathOf(n))
  /\ Get(node, K_properties).t = "obj"

\* The serialized node is the tree below n: a children list, in tree order,
\* exactly where a node has a child.
RECURSIVE IsNodeTree(_, _, _)
IsNodeTree(h, node, n) ==
  /\ IsNodeInfo(h, node, n)
  /\ HasKey(node, K_children) <=> Len(Children(h, n)) > 0
  /\ HasKey(node, K_children)
       => /\ Get(node, K_children).t = "arr"
          /\ Len(Get(node, K_children).v) = Len(Children(h, n))
          /\ \A i \in 1..Len(Children(h, n)) :
               IsNodeTree(h, Get(node, K_children).v[i], Children(h, n)[i])

\* C31: get_node for a path the handler resolves returns a success with the
\* id of the request whose payload.node has name, type, path and properties
\* of the node and no children key, also for a node with children;
\* get_scene_tree returns NO_SCENE while no scene is current and otherwise
\* the root of the current scene with a children list at every node that
\* has a child and none at the leaves.
C31_NodeInfoShape ==
  [][dCalls' = dCalls + 1
       => /\ (/\ Addresses(dMsg', C_get_node, K_path)
               /\ HasKey(Get(dMsg', K_payload), K_path)
               /\ _get_node_by_path(dHost, TextField(dMsg', K_path).v) # "null")
               => /\ GaveSuccess(dResult')
                  /\ Get(dResult'.v, K_id) = Get(dMsg', K_id)
                  /\ KeysOf(Get(dResult'.v, K_payload)) = {K_node}
                  /\ IsNodeInfo(dHost, Get(Get(dResult'.v, K_payload), K_node),
                                _get_node_by_path(dHost, TextField(dMsg', K_path).v))
                  /\ ~HasKey(Get(Get(dResult'.v, K_payload), K_node), K_children)
          /\ Get(dMsg', K_command) = JStr(C_get_scene_tree)
               => IF dHost.scene = "none"
                  THEN GaveError(dResult', E_NO_SCENE)
                  ELSE /\ GaveSuccess(dResult')
                       /\ Get(dResult'.v, K_id) = Get(dMsg', K_id)
                       /\ KeysOf(Get(dResult'.v, K_payload)) = {K_root}
                       /\ IsNodeTree(dHost, Get(Get(dResult'.v, K_payload), K_root),
                                     dHost.scene)
    ]_vars

\* The current scene, which has a child, has been asked for by get_node: the
\* node returned has no children key.
C31_Witness ==
  /\ Asked(C_get_node)
  /\ TextField(dMsg, K_path) = JStr(P_self)
  /\ ReturnedSuccess
  /\ Get(Get(Get(dResult.v, K_payload), K_node), K_name) = JStr(NodeName["Main"])
  /\ ~HasKey(Get(Get(dResult.v, K_payload), K_node), K_children)
  /\ Len(Children(dHost, "Main")) > 0

-----------------------------------------------------------------------------
(* Claims about the tool handlers (checked under SpecTools)                 *)

TextStartsWith(s, p) == Len(s) >= Len(p) /\ SubSeq(s, 1, Len(p)) = p

\* The capability each kind of tool needs.
CapabilityFor(tool) ==
  IF tool \in {"getSceneTree", "getNode", "setProperty", "callMethod"} THEN <<"n", "o", "d", "e", "s">>
  ELSE IF tool = "changeScene" THEN <<"s", "c", "e", "n", "e">>
  ELSE <<"i", "n", "p", "u", "t">>

\* The first of the four checks a run fails: 0 when it passes them all.
FirstFailedCheck(p, cap) ==
  IF ~p.present THEN 1
  ELSE IF p.status = "exited" THEN 2
  ELSE IF ~(p.bridge /\ p.bridgeConnected) THEN 3
  ELSE IF cap \notin p.caps THEN 4
  ELSE 0

CheckMessage(check, cap, text) ==
  CASE check = 1 -> text = <<"N", "o", " ", "p", "r", "o", "j", "e", "c", "t", " ", "f", "o", "u", "n", "d", " ", "w", "i", "t", "h", " ", "r", "u", "n", " ", "I", "D", ":", " ">> \o RunId
    [] check = 2 -> text = <<"P", "r", "o", "j", "e", "c", "t", " ">> \o RunId \o <<" ", "h", "a", "s", " ", "e", "x", "i", "t", "e", "d">>
    [] check = 3 -> TextStartsWith(text, <<"M", "C", "P", " ", "B", "r", "i", "d", "g", "e", " ", "a", "d", "d", "o", "n", " ", "n", "o", "t", " ", "c", "o", "n", "n", "e", "c", "t", "e", "d", ".">>)
    [] OTHER -> text = <<"B", "r", "i", "d", "g", "e", " ", "d", "o", "e", "s", " ", "n", "o", "t", " ", "s", "u", "p", "p", "o", "r", "t", " ">> \o cap \o <<" ", "c", "a", "p", "a", "b", "i", "l", "i", "t", "y">>

ToolChecksInOrder ==
  tCalls' # tCalls =>
    LET tool == tCall'.tool
        check == FirstFailedCheck(tProject, CapabilityFor(tool))
    IN  /\ tool \in BridgeTools
        /\ check # 0 => /\ tReturn'.kind = "text"
                        /\ CheckMessage(check, CapabilityFor(tool), tReturn'.text)
                        /\ tSent' = tSent
                        /\ tPc' = "idle"
        /\ check = 0 => /\ Len(tSent') = Len(tSent) + 1
                        /\ tReturn'.kind \in {"none", "text"}
                        /\ tReturn'.kind = "none" <=> tPc' = "awaiting"

ToolNeverRaises ==
  /\ tReturn'.kind # "raise"
  /\ (tPc = "awaiting" /\ tPc' = "idle") => /\ tReturn'.kind = "text"
                                            /\ tSent' = tSent

\* C33: every bridge tool handler checks, in this order, that the run exists,
\* that it has not exited, that the bridge is there and connected, and that
\* the bridge has the capability the tool needs; the first check that fails
\* decides the text it returns, and sendRequest is not called; a handler
\* that passes them calls sendRequest once; a handler never lets an
\* exception out, whether sendRequest throws, rejects or resolves.
C33_ToolChecks == [][ToolChecksInOrder /\ ToolNeverRaises]_vars

\* A first call passed the checks and sendRequest was rejected or resolved;
\* the run then exited and the second call stopped at the second check.
C33_Witness ==
  /\ tCalls = 2
  /\ Len(tSent) = 1
  /\ tPc = "idle"
  /\ tReturn = TextResult(<<"P", "r", "o", "j", "e", "c", "t", " ", "r", "1", " ", "h", "a", "s", " ", "e", "x", "i", "t", "e", "d">>)

-----------------------------------------------------------------------------
(* Claims about the frame codec (checked under SpecCodec)                   *)

\* A message as the claims call valid: id a string, kind one of the three,
\* command a string, any payload, an optional error of code and message.
ValidMessage(m) ==
  /\ m.t = "obj"
  /\ Get(m, K_id).t = "str"
  /\ Get(m, K_type).t = "str" /\ Get(m, K_type).v \in MessageTypes
  /\ Get(m, K_command).t = "str"
  /\ HasKey(m, K_error) =>
       (Get(Get(m, K_error), K_code).t = "str" /\ Get(Get(m, K_error), K_message).t = "str")

OneFrameDrawn == Len(cPieces) = 1 /\ cPieces[1].kind = "frame"

C7_PartialDelivery ==
  (OneFrameDrawn /\ cSplit > 0 /\ {"whole", "second"} \subseteq cDone) =>
    /\ cFirst.messages \o cSecond.messages = cWhole.messages
    /\ cFirst.nonBridgeText \o cSecond.nonBridgeText = cWhole.nonBridgeText
    /\ cSecond.remaining = cWhole.remaining

\* The pieces of the drawn input other than its i-th, as one text.
TextAround(ps, i) == StreamOf(SubSeq(ps, 1, i - 1)) \o StreamOf(SubSeq(ps, i + 1, Len(ps)))

\* The drawn input is t1 ++ f ++ t2 with f its i-th piece and t1, t2 made of
\* pieces of the given kinds.
FrameAmong(ps, i, kinds) ==
  /\ ps[i].kind = "frame"
  /\ \A j \in 1..Len(ps) : j # i => ps[j].kind \in kinds

InterleavingHolds(i) ==
  /\ cWhole.messages = <<cPieces[i].arg>>
  /\ cWhole.nonBridgeText = TextAround(cPieces, i)
  /\ cWhole.remaining = <<>>

\* C8, as stated: for arbitrary text t1 and t2 (text that may hold the prefix
\* token included) and a valid frame f, one call on t1 ++ f ++ t2 returns the
\* one message of f, nonBridgeText t1 ++ t2 and an empty remaining buffer.
C8_InterleavingAnyText ==
  ("whole" \in cDone /\ cSplit = 0) =>
    \A i \in 1..Len(cPieces) :
      FrameAmong(cPieces, i, {"text", "span", "tail"}) => InterleavingHolds(i)

\* C8, amended: the same for text t1 and t2 in which the prefix token does
\* not occur.
C8_InterleavingPrefixFreeText ==
  ("whole" \in cDone /\ cSplit = 0) =>
    \A i \in 1..Len(cPieces) : FrameAmong(cPieces, i, {"text"}) => InterleavingHolds(i)

C8_Witness ==
  /\ "whole" \in cDone
  /\ cPieces = <<TextPiece(<<"[", "M", "C", "P", "_">>), FramePiece(MsgResult),
                 TextPiece(<<"a", "]", "b">>)>>
  /\ cWhole.messages = <<MsgResult>>

\* The 0-based position of the first prefix token with no suffix token after
\* it in b, or -1.
PendingStart(b) ==
  LET sfx == {i \in 1..Len(b) : b[i] = "]"}
      after == IF sfx = {} THEN 0 ELSE CHOOSE i \in sfx : \A j \in sfx : j <= i
  IN  indexOf(b, PREFIX, after)

TailKept(b, r) ==
  LET p == PendingStart(b)
  IN  /\ IF p = -1 THEN r.remaining = <<>>
         ELSE /\ r.remaining = slice(b, p, Len(b))
              /\ Len(r.nonBridgeText) <= p
              /\ r.nonBridgeText = extractMessages(slice(b, 0, p)).nonBridgeText
      /\ \/ r.remaining = <<>>
         \/ startsWith(r.remaining, PREFIX) /\ indexOf(r.remaining, SUFFIX, 0) = -1

\* C9: when the buffer holds a prefix with no suffix after it, the call returns
\* as remaining the buffer from that prefix to its end and none of it as
\* nonBridgeText; after every call remaining is empty, or starts with the
\* prefix token and holds no suffix token.
C9_PendingTail ==
  /\ "whole" \in cDone => TailKept(cStream, cWhole)
  /\ "first" \in cDone => TailKept(slice(cStream, 0, cSplit), cFirst)
  /\ "second" \in cDone =>
       TailKept(cFirst.remaining \o slice(cStream, cSplit, Len(cStream)), cSecond)

C9_Witness ==
  /\ "whole" \in cDone
  /\ cPieces = <<TextPiece(<<"o", "k", "\n">>), FramePiece(MsgRequest),
                 TailPiece(PREFIX \o <<"e", "y", "J", "p">>)>>
  /\ cWhole.remaining = PREFIX \o <<"e", "y", "J", "p">>
  /\ cWhole.nonBridgeText = <<"o", "k", "\n">>

IsFrame(p) == p.kind = "frame"
IsText(p) == p.kind = "text"
IsTail(p) == p.kind = "tail"

FrameMessages(ps) ==
  LET fs == SelectSeq(ps, IsFrame) IN [i \in 1..Len(fs) |-> fs[i].arg]

\* C10: a span that does not decode is dropped and the scan goes on: every
\* frame after it in the buffer is returned, and the span is in neither
\* messages nor remaining (nor handed out as console text).
C10_BadSpanDropped ==
  ( /\ "whole" \in cDone /\ cSplit = 0
    /\ \E i \in 1..Len(cPieces) : cPieces[i].kind = "span"
    /\ \A i \in 1..(Len(cPieces) - 1) : cPieces[i].kind # "tail" ) =>
    /\ cWhole.messages = FrameMessages(cPieces)
    /\ cWhole.remaining = StreamOf(SelectSeq(cPieces, IsTail))
    /\ cWhole.nonBridgeText = StreamOf(SelectSeq(cPieces, IsText))

C10_Witness ==
  /\ "whole" \in cDone
  /\ cPieces = <<SpanPiece(<<"N", "Q", "=", "=">>), FramePiece(MsgError), FramePiece(MsgResult)>>
  /\ cWhole.messages = <<MsgError, MsgResult>>

\* A record that carries id, kind and command.
HasFields(x) == x.t = "obj" /\ HasKey(x, K_id) /\ HasKey(x, K_type) /\ HasKey(x, K_command)

\* The drawn piece is no frame: it lacks the prefix or the suffix, its interior
\* is no record, or its record lacks id, kind or command.
NoMessageDrawn ==
  \/ cPieces[1].kind \in {"text", "tail", "span", "line"}
  \/ cPieces[1].kind = "record" /\ ~HasFields(cPieces[1].arg)

DecodeResultOk(result) ==
  /\ result = JNull \/ HasFields(result)
  /\ NoMessageDrawn => result = JNull

\* C11: each decoder returns, for every input text, a record with id, kind and
\* command or null, never an exception; it returns null when the text lacks
\* the prefix or the suffix, when the interior is no record and when the
\* record lacks id, kind or command.
C11_DecodeNeverRaises ==
  /\ ("decode" \in cDone /\ Len(cPieces) = 1) => DecodeResultOk(cDecoded)
  /\ "target" \in cDone => DecodeResultOk(cTarget)

\* The JSON text null between prefix and suffix went through both decoders.
C11_Witness ==
  /\ {"decode", "target"} \subseteq cDone
  /\ cPieces = <<LinePiece(PREFIX \o <<"b", "n", "V", "s", "b", "A", "=", "=">> \o SUFFIX)>>
  /\ cDecoded = JNull /\ cTarget = JNull

\* f starts with the prefix token, ends with the suffix token and holds the
\* suffix token nowhere else.
SuffixOnlyAtEnd(f) ==
  /\ startsWith(f, PREFIX) /\ endsWith(f, SUFFIX)
  /\ indexOf(f, SUFFIX, 0) = Len(f) - Len(SUFFIX)

\* The 0-based position at which the i-th piece starts in the stream.
PieceStart(ps, i) == Len(StreamOf(SubSeq(ps, 1, i - 1)))

\* C12: every encoded message starts with the prefix token, ends with the
\* suffix token and holds the suffix token nowhere else, for the encoder of
\* either side; so in a stream the first suffix token found from the start of
\* a frame is the end of that frame.
C12_SuffixOnlyAtEnd ==
  /\ cPhase = "built" =>
       \A i \in 1..Len(cPieces) :
         cPieces[i].kind = "frame" =>
           /\ SuffixOnlyAtEnd(encodeMessage(cPieces[i].arg))
           /\ indexOf(cStream, SUFFIX, PieceStart(cPieces, i))
                = PieceStart(cPieces, i) + Len(encodeMessage(cPieces[i].arg)) - Len(SUFFIX)
  /\ "encode" \in cDone => SuffixOnlyAtEnd(cEncoded)

\* A message whose payload holds the suffix token has been encoded by both
\* sides, to two different frames.
C12_Witness ==
  /\ "encode" \in cDone
  /\ cPieces = <<FramePiece(MsgResult)>>
  /\ cStream = encodeMessage(MsgResult)
  /\ cEncoded # cStream
  /\ SuffixOnlyAtEnd(cEncoded) /\ SuffixOnlyAtEnd(cStream)

\* The buffer b without its prefix..suffix spans: a span runs from a prefix
\* token to the first suffix token after it; a prefix token with no suffix
\* token after it starts no span.
RECURSIVE WithoutSpans(_)
WithoutSpans(b) ==
  LET p == indexOf(b, PREFIX, 0)
      q == IF p = -1 THEN -1 ELSE indexOf(b, SUFFIX, p)
  IN  IF q = -1 THEN b
      ELSE SubSeq(b, 1, p) \o WithoutSpans(SubSeq(b, q + 2, Len(b)))

\* The number of characters of b inside its prefix..suffix spans.
SpanLength(b) == Len(b) - Len(WithoutSpans(b))

TextPreserved(b, r) ==
  /\ r.nonBridgeText \o r.remaining = WithoutSpans(b)
  /\ Len(r.nonBridgeText) + Len(r.remaining) + SpanLength(b) = Len(b)

\* C13: after one call, nonBridgeText followed by remaining is the buffer
\* without its prefix..suffix spans: every character outside a span is there,
\* once, and in the order of the buffer.
C13_ConsoleTextPreserved ==
  /\ "whole" \in cDone => TextPreserved(cStream, cWhole)
  /\ "first" \in cDone => TextPreserved(slice(cStream, 0, cSplit), cFirst)
  /\ "second" \in cDone =>
       TextPreserved(cFirst.remaining \o slice(cStream, cSplit, Len(cStream)), cSecond)

\* Text, a span that does not decode, text holding a suffix token, in one call.
C13_Witness ==
  /\ "whole" \in cDone
  /\ cPieces = <<TextPiece(<<"o", "k", "\n">>), SpanPiece(<<"N", "Q", "=", "=">>),
                 TextPiece(<<"a", "]", "b">>)>>
  /\ cWhole.nonBridgeText = <<"o", "k", "\n", "a", "]", "b">>
  /\ cWhole.remaining = <<>>

====
